---- MODULE Spec2Model ----
(***************************************************************************)
(* A model of the workflow-builder backend (shankarbhavani/workflow-builder)*)
(*                                                                         *)
(*   Spec      the API plane: execute / cancel / sync of Executions        *)
(*             (app/services/temporal_service.py,                          *)
(*              app/api/endpoints/executions.py, workflows.py) against the *)
(*             durable runtime.                                            *)
(*   SpecOrder DynamicWorkflow._get_execution_order as a pure function.    *)
(*   SpecRun   DynamicWorkflow.run, one node of the order per step.        *)
(*   SpecValidate  validate_workflow_graph as a pure function.             *)
(*   SpecCrud  create / update / delete of Workflow rows.                  *)
(*   SpecAction    the invocations of execute_action for one action node,  *)
(*             one HTTP call a step, with the runtime's retries.           *)
(*   SpecInterp    _interpolate_config as a pure function.                 *)
(*   SpecChat  POST /chat and the conversation agent, one graph node a     *)
(*             step, and GET /chat/sessions/{id}.                          *)
(*   SpecCancelRace, SpecUpdateRace, SpecChatRace  concurrent requests on  *)
(*             one execution, one workflow, one conversation session; req, *)
(*             resp, turn and reply then hold one entry per handler.       *)
(***************************************************************************)
EXTENDS Integers, Sequences, FiniteSets, TLC

VARIABLES
    pyEnumStr,      \* how str() renders an IntEnum member in this build
    workflows,      \* the Workflow rows in the database, by id
    executions,     \* the Execution rows, by id 1..Len
    runtime,        \* the durable runtime's workflow executions, by runtime id
    now,            \* datetime.utcnow()
    req,            \* the API request being served (cancel_execution suspends twice)
    resp,           \* the last HTTP response
    config,         \* DynamicWorkflow.run: its config argument {nodes, edges}
    execution_order,\* DynamicWorkflow.run: the order _get_execution_order returned
    idx,            \* DynamicWorkflow.run: position of the for loop in execution_order
    state,          \* DynamicWorkflow.run: state["results"]
    calls,          \* execute_action invocations made by the run, in order
    logs,           \* the ExecutionLog rows of the run
    runPc,          \* DynamicWorkflow.run: where the coroutine is
    runReturn,      \* DynamicWorkflow.run: what it returned
    validation,     \* validate_workflow_graph: the (is_valid, errors) it returned
    interp,         \* _interpolate_config: its arguments and what it returned
    activity,       \* execute_action: the current invocation, its HTTP calls and its end
    sessions,       \* the ConversationSession rows in the database, by id
    turn,           \* the chat request being served: the agent's ConversationState
    reply           \* the response of the chat request last served

apiVars == <<pyEnumStr, workflows, executions, runtime, now, req, resp>>
runVars == <<config, execution_order, idx, state, calls, logs, runPc, runReturn>>
fnVars == <<validation, interp, activity>>
chatVars == <<sessions, turn, reply>>
vars == <<pyEnumStr, workflows, executions, runtime, now, req, resp,
          config, execution_order, idx, state, calls, logs, runPc, runReturn,
          validation, interp, activity, sessions, turn, reply>>

----------------------------------------------------------------------------
(* Bounds of the model *)

MaxExec == 1
MaxClock == 2
MaxEdges == 2
MaxVersion == 2
MaxSegments == 2

----------------------------------------------------------------------------
(* JSON values as Python holds them, tagged with their type. A str is the
   sequence of its tokens: the characters "{", "}", ".", " " and so on, and
   whole words that hold none of these; the words are chosen so that no text
   splits into tokens in two ways, which makes matching and replacing on tokens
   the same as on characters. A dict is the sequence of its items in insertion
   order, its keys being one-word strings. *)

Str(tokens) == [t |-> "str", v |-> tokens]
Dict(items) == [t |-> "dict", v |-> items]
List(items) == [t |-> "list", v |-> items]
NoneValue == [t |-> "none", v |-> <<>>]
TrueValue == [t |-> "bool", v |-> <<"True">>]

Item(key, value) == [key |-> key, value |-> value]

----------------------------------------------------------------------------
(* Execution records and the durable runtime *)

\* models/execution.py:21, the values the column is documented to hold
LocalStatuses == {"RUNNING", "COMPLETED", "FAILED", "CANCELLED"}

\* temporal_service.py:151, the list get_workflow_status tests membership in
TerminalStatuses == {"COMPLETED", "FAILED", "CANCELLED"}

\* temporalio.client.WorkflowExecutionStatus, the type of description.status
RuntimeStatuses ==
    {"RUNNING", "COMPLETED", "FAILED", "CANCELED", "TERMINATED",
     "CONTINUED_AS_NEW", "TIMED_OUT"}

RuntimeClosed == RuntimeStatuses \ {"RUNNING"}

\* str() of an IntEnum member: its qualified name before Python 3.11, the
\* decimal of its value from Python 3.11 on.
PyEnumStrForms == {"qualified", "value"}

\* str(description.status), temporal_service.py:148
StrOfStatus(form, s) ==
    IF form = "qualified"
    THEN "WorkflowExecutionStatus." \o s
    ELSE CASE s = "RUNNING" -> "1"
           [] s = "COMPLETED" -> "2"
           [] s = "FAILED" -> "3"
           [] s = "CANCELED" -> "4"
           [] s = "TERMINATED" -> "5"
           [] s = "CONTINUED_AS_NEW" -> "6"
           [] s = "TIMED_OUT" -> "7"

\* completed_at is None (the empty sequence) or one timestamp
None == <<>>
IsSet(t) == t /= None

ExecIds == 1..(MaxExec + 1)
KnownExec(e) == e \in 1..Len(executions)

WorkflowIds == {"w1", "w9"}

\* an Execution that is no row
NoExecution ==
    [workflow_id |-> "", temporal_workflow_id |-> 0, status |-> "", completed_at |-> None]

\* no request is being served; a request records the row it loaded (before) and
\* the statement of cancel_workflow it is at (pc, 0 when none)
Idle == [op |-> "idle", id |-> 0, pc |-> 0, before |-> NoExecution]
NoResp == [op |-> "none", id |-> 0, code |-> 0, detail |-> "", seen |-> "", seq |-> 0]

\* An HTTP response: its status code and the status it carries. seen is the status
\* handle.describe() gave the handler ("" when the runtime was not read); seq
\* alternates so that two equal answers in a row are two answers.
Answer(op, id, code, detail, seen) ==
    [op |-> op, id |-> id, code |-> code, detail |-> detail, seen |-> seen,
     seq |-> 1 - resp.seq]

Respond(op, id, code, detail) == Answer(op, id, code, detail, "")

\* a Workflow row (models/workflow.py)
Workflow(name, version, cfg, is_active) ==
    [name |-> name, version |-> version, config |-> cfg, is_active |-> is_active]

\* the workflow the execution lifecycle is exercised on: one action node
SeedWorkflow ==
    Workflow("n1", 1, [nodes |-> <<[id |-> "a", type |-> "action", config |-> Dict(<<>>)]>>,
                       edges |-> <<>>], TRUE)

----------------------------------------------------------------------------
(* TemporalService and the executions / workflows endpoints *)

NewExecutionUnlinked(w, rtid) ==
    [workflow_id |-> w, temporal_workflow_id |-> 0,
     status |-> "RUNNING", completed_at |-> None]

\* start_workflow: the Execution record it creates
NewExecution(w, rtid) ==
    [workflow_id |-> w, temporal_workflow_id |-> rtid,
     status |-> "RUNNING", completed_at |-> None]

\* the runtime's record of a workflow execution that was just started
NewRuntimeWorkflow == [status |-> "RUNNING", cancel_requested |-> FALSE]

CancelAllowedAlways(e) == TRUE

\* cancel_execution: the state check before the runtime is contacted
CancelAllowed(e) == executions[e].status = "RUNNING"

MarkCancelledNoTimestamp(ex) == [ex EXCEPT !.status = "CANCELLED"]

\* cancel_workflow: the update of the local record after handle.cancel()
MarkCancelled(ex) ==
    [ex EXCEPT !.status = "CANCELLED", !.completed_at = <<now>>]

\* get_workflow_status: the update of the local record after handle.describe()
Reconcile(ex, temporal_status) ==
    IF temporal_status /= ex.status
    THEN [ex EXCEPT !.status = temporal_status,
                    !.completed_at = IF temporal_status \in TerminalStatuses
                                     THEN <<now>> ELSE @]
    ELSE ex

\* POST /workflows/{id}/execute, unknown workflow
ExecuteNotFound(w) ==
    /\ req = Idle
    /\ w \notin DOMAIN workflows
    /\ resp' = Respond("execute", 0, 404, "")
    /\ UNCHANGED <<chatVars, pyEnumStr, workflows, executions, runtime, now, req, runVars, fnVars>>

\* POST /workflows/{id}/execute, client.start_workflow raises
ExecuteFailed(w) ==
    /\ req = Idle
    /\ w \in DOMAIN workflows
    /\ resp' = Respond("execute", 0, 500, "")
    /\ UNCHANGED <<chatVars, pyEnumStr, workflows, executions, runtime, now, req, runVars, fnVars>>

\* POST /workflows/{id}/execute: client.start_workflow returned (lines 62-67)
\* and the commit of the Execution raises (line 79); start_workflow has no
\* handler and the endpoint answers 500. The runtime keeps the run.
ExecuteCommitFails(w) ==
    /\ req = Idle
    /\ w \in DOMAIN workflows
    /\ Len(runtime) < MaxExec
    /\ runtime' = Append(runtime, NewRuntimeWorkflow)
    /\ resp' = Respond("execute", 0, 500, "")
    /\ UNCHANGED <<chatVars, pyEnumStr, workflows, executions, now, req, runVars, fnVars>>

\* POST /workflows/{id}/execute, the workflow is started and recorded
ExecuteStarted(w) ==
    /\ req = Idle
    /\ w \in DOMAIN workflows
    /\ Len(runtime) < MaxExec
    /\ runtime' = Append(runtime, NewRuntimeWorkflow)
    /\ executions' = Append(executions, NewExecution(w, Len(runtime) + 1))
    /\ resp' = Respond("execute", Len(executions) + 1, 200,
                       executions'[Len(executions) + 1].status)
    /\ UNCHANGED <<chatVars, pyEnumStr, workflows, now, req, runVars, fnVars>>

execute_workflow(w) ==
    \/ ExecuteNotFound(w)
    \/ ExecuteFailed(w)
    \/ ExecuteCommitFails(w)
    \/ ExecuteStarted(w)

\* POST /executions/{id}/cancel, unknown execution
CancelNotFound(e) ==
    /\ req = Idle
    /\ ~KnownExec(e)
    /\ resp' = Respond("cancel", e, 404, "")
    /\ UNCHANGED <<chatVars, pyEnumStr, workflows, executions, runtime, now, req, runVars, fnVars>>

\* POST /executions/{id}/cancel, the execution is not RUNNING
CancelRejected(e) ==
    /\ req = Idle
    /\ KnownExec(e)
    /\ ~CancelAllowed(e)
    /\ resp' = Respond("cancel", e, 400, executions[e].status)
    /\ UNCHANGED <<chatVars, pyEnumStr, workflows, executions, runtime, now, req, runVars, fnVars>>

MarkThenSignal == <<"mark", "signal">>

\* cancel_workflow: its two effects in statement order, handle.cancel() (line
\* 109) and then the update of the record (lines 112-115)
CancelWorkflowSteps == <<"signal", "mark">>

AtCancelStep(name) == req.pc > 0 /\ CancelWorkflowSteps[req.pc] = name

\* the statement is done: on to the next one, or cancel_workflow returns and the
\* endpoint answers 200
CancelAdvance ==
    IF req.pc < Len(CancelWorkflowSteps)
    THEN req' = [req EXCEPT !.pc = @ + 1] /\ resp' = resp
    ELSE req' = Idle /\ resp' = Respond("cancel", req.id, 200, "CANCELLED")

\* POST /executions/{id}/cancel, accepted: cancel_workflow is entered
CancelBegin(e) ==
    /\ req = Idle
    /\ KnownExec(e)
    /\ CancelAllowed(e)
    /\ req' = [op |-> "cancel", id |-> e, pc |-> 1, before |-> executions[e]]
    /\ UNCHANGED <<chatVars, pyEnumStr, workflows, executions, runtime, now, resp, runVars, fnVars>>

\* cancel_workflow: await handle.cancel() returns
CancelSignalled ==
    /\ AtCancelStep("signal")
    /\ runtime' = [runtime EXCEPT
                     ![executions[req.id].temporal_workflow_id].cancel_requested = TRUE]
    /\ CancelAdvance
    /\ UNCHANGED <<chatVars, pyEnumStr, workflows, executions, now, runVars, fnVars>>

\* cancel_workflow: get_client() or handle.cancel() raises; the endpoint answers 500
CancelRaised ==
    /\ AtCancelStep("signal")
    /\ req' = Idle
    /\ resp' = Respond("cancel", req.id, 500, "")
    /\ UNCHANGED <<chatVars, pyEnumStr, workflows, executions, runtime, now, runVars, fnVars>>

\* cancel_workflow: the local record is updated and committed
CancelMark ==
    /\ AtCancelStep("mark")
    /\ executions' = [executions EXCEPT ![req.id] = MarkCancelled(@)]
    /\ CancelAdvance
    /\ UNCHANGED <<chatVars, pyEnumStr, workflows, runtime, now, runVars, fnVars>>

cancel_execution(e) ==
    \/ CancelNotFound(e)
    \/ CancelRejected(e)
    \/ CancelBegin(e)

\* POST /executions/{id}/sync, unknown execution
SyncNotFound(e) ==
    /\ req = Idle
    /\ ~KnownExec(e)
    /\ resp' = Respond("sync", e, 404, "")
    /\ UNCHANGED <<chatVars, pyEnumStr, workflows, executions, runtime, now, req, runVars, fnVars>>

\* POST /executions/{id}/sync, handle.describe() raises: the local status is returned
SyncUnreachable(e) ==
    /\ req = Idle
    /\ KnownExec(e)
    /\ resp' = Respond("sync", e, 200, executions[e].status)
    /\ UNCHANGED <<chatVars, pyEnumStr, workflows, executions, runtime, now, req, runVars, fnVars>>

\* POST /executions/{id}/sync, get_workflow_status reads the runtime's status
SyncDescribed(e) ==
    /\ req = Idle
    /\ KnownExec(e)
    /\ LET rt == runtime[executions[e].temporal_workflow_id]
           temporal_status == StrOfStatus(pyEnumStr, rt.status)
       IN /\ executions' = [executions EXCEPT ![e] = Reconcile(@, temporal_status)]
          /\ resp' = Answer("sync", e, 200, executions'[e].status, rt.status)
    /\ UNCHANGED <<chatVars, pyEnumStr, workflows, runtime, now, req, runVars, fnVars>>

sync_execution_status(e) ==
    \/ SyncNotFound(e)
    \/ SyncUnreachable(e)
    \/ SyncDescribed(e)

\* the durable runtime closes a running workflow execution
RuntimeClose(k) ==
    /\ k \in 1..Len(runtime)
    /\ runtime[k].status = "RUNNING"
    /\ \E s \in RuntimeClosed :
          /\ s = "CANCELED" => runtime[k].cancel_requested
          /\ runtime' = [runtime EXCEPT ![k].status = s]
    /\ UNCHANGED <<chatVars, pyEnumStr, workflows, executions, now, req, resp, runVars, fnVars>>

\* time passes
Tick ==
    /\ now < MaxClock
    /\ now' = now + 1
    /\ UNCHANGED <<chatVars, pyEnumStr, workflows, executions, runtime, req, resp, runVars, fnVars>>

\* no function of the pure-function specifications has been applied
FnIdle ==
    /\ validation = <<>>
    /\ interp = <<>>
    /\ activity = <<>>

\* no conversation session and no chat request
ChatIdle ==
    /\ sessions = <<>>
    /\ turn = <<>>
    /\ reply = <<>>

\* the API plane at rest, for the specifications that do not exercise it
ApiIdle ==
    /\ pyEnumStr = "value"
    /\ workflows = <<>>
    /\ executions = <<>>
    /\ runtime = <<>>
    /\ now = 1
    /\ req = Idle
    /\ resp = NoResp

RunIdle ==
    /\ config = [nodes |-> <<>>, edges |-> <<>>]
    /\ execution_order = <<>>
    /\ idx = 0
    /\ state = <<>>
    /\ calls = <<>>
    /\ logs = <<>>
    /\ runPc = "none"
    /\ runReturn = <<>>

Init ==
    /\ pyEnumStr \in PyEnumStrForms
    /\ workflows = ("w1" :> SeedWorkflow)
    /\ executions = <<>>
    /\ runtime = <<>>
    /\ now = 1
    /\ req = Idle
    /\ resp = NoResp
    /\ RunIdle
    /\ FnIdle
    /\ ChatIdle

Next ==
    \/ \E w \in WorkflowIds : execute_workflow(w)
    \/ \E e \in ExecIds : cancel_execution(e)
    \/ CancelSignalled
    \/ CancelRaised
    \/ CancelMark
    \/ \E e \in ExecIds : sync_execution_status(e)
    \/ \E k \in 1..MaxExec : RuntimeClose(k)
    \/ Tick

Spec == Init /\ [][Next]_vars

----------------------------------------------------------------------------
(* DynamicWorkflow: the workflow config and _get_execution_order *)

NodePool == {"a", "b", "c"}

\* edge endpoints may name a node the config does not hold
EndpointPool == NodePool \cup {"x"}

Range(f) == {f[i] : i \in DOMAIN f}

\* the keys of nodes = {node["id"]: node for node in config["nodes"]}, in
\* insertion order: sequences without a repeated id
NodeIdLists ==
    {ids \in UNION {[1..n -> NodePool] : n \in 0..Cardinality(NodePool)} :
        \A i, j \in DOMAIN ids : ids[i] = ids[j] => i = j}

Edge(u, v) == [source |-> u, target |-> v]

EdgeLists ==
    UNION {[1..n -> {Edge(u, v) : u, v \in EndpointPool}] : n \in 0..MaxEdges}

\* position of x in the sequence s, 0 when absent (x in s / x not in s)
IndexOf(s, x) ==
    IF \E i \in DOMAIN s : s[i] = x
    THEN CHOOSE i \in DOMAIN s : s[i] = x /\ \A j \in 1..(i - 1) : s[j] /= x
    ELSE 0

\* the sequence s without the elements failing Keep, order kept
RECURSIVE SelectIn(_, _)
SelectIn(s, keep) ==
    IF s = <<>> THEN <<>>
    ELSE IF Head(s) \in keep THEN <<Head(s)>> \o SelectIn(Tail(s), keep)
         ELSE SelectIn(Tail(s), keep)

\* lines 149-157: adjacency lists and in-degrees, one edge at a time
RECURSIVE BuildGraph(_, _, _)
BuildGraph(edges, adjacency, in_degree) ==
    IF edges = <<>> THEN [adjacency |-> adjacency, in_degree |-> in_degree]
    ELSE LET source == Head(edges).source
             target == Head(edges).target
         IN IF source \in DOMAIN adjacency /\ target \in DOMAIN in_degree
            THEN BuildGraph(Tail(edges),
                            [adjacency EXCEPT ![source] = Append(@, target)],
                            [in_degree EXCEPT ![target] = @ + 1])
            ELSE BuildGraph(Tail(edges), adjacency, in_degree)

\* lines 168-171: the neighbours of the popped node, in adjacency order
RECURSIVE ReduceNeighbors(_, _, _)
ReduceNeighbors(neighbors, in_degree, queue) ==
    IF neighbors = <<>> THEN [in_degree |-> in_degree, queue |-> queue]
    ELSE LET neighbor == Head(neighbors)
             d == [in_degree EXCEPT ![neighbor] = @ - 1]
         IN ReduceNeighbors(Tail(neighbors), d,
                            IF d[neighbor] = 0 THEN Append(queue, neighbor) ELSE queue)

\* lines 163-171: while queue
RECURSIVE KahnLoop(_, _, _, _)
KahnLoop(queue, execution_order_, in_degree, adjacency) ==
    IF queue = <<>> THEN execution_order_
    ELSE LET node_id == Head(queue)
             r == ReduceNeighbors(adjacency[node_id], in_degree, Tail(queue))
         IN KahnLoop(r.queue, Append(execution_order_, node_id), r.in_degree, adjacency)

InsertionOrder(ids, edges) == ids

\* the order Kahn's loop emits, without the nodes it never reaches
EmittedOnly(ids, edges) ==
    LET g == BuildGraph(edges, [n \in Range(ids) |-> <<>>], [n \in Range(ids) |-> 0])
    IN KahnLoop(SelectIn(ids, {n \in Range(ids) : g.in_degree[n] = 0}), <<>>,
                g.in_degree, g.adjacency)

\* _get_execution_order(nodes, edges); ids are the keys of nodes in insertion order
GetExecutionOrder(ids, edges) ==
    LET g == BuildGraph(edges, [n \in Range(ids) |-> <<>>], [n \in Range(ids) |-> 0])
        queue == SelectIn(ids, {n \in Range(ids) : g.in_degree[n] = 0})
        emitted == KahnLoop(queue, <<>>, g.in_degree, g.adjacency)
    IN IF Len(emitted) /= Len(ids)
       THEN emitted \o SelectIn(ids, Range(ids) \ Range(emitted))
       ELSE emitted

----------------------------------------------------------------------------
(* SpecOrder: _get_execution_order applied to every small graph *)

\* the ids of the nodes of a config, as run() keys them
NodeIdsOf(cfg) == [i \in DOMAIN cfg.nodes |-> cfg.nodes[i].id]

PlainNode(id) == [id |-> id, type |-> "action", config |-> Dict(<<>>)]

InitOrder ==
    /\ pyEnumStr = "value"
    /\ workflows = <<>>
    /\ executions = <<>>
    /\ runtime = <<>>
    /\ now = 1
    /\ req = Idle
    /\ resp = NoResp
    /\ \E ids \in NodeIdLists, es \in EdgeLists :
          config = [nodes |-> [i \in DOMAIN ids |-> PlainNode(ids[i])], edges |-> es]
    /\ execution_order = <<>>
    /\ idx = 0
    /\ state = <<>>
    /\ calls = <<>>
    /\ logs = <<>>
    /\ runPc = "input"
    /\ runReturn = <<>>
    /\ FnIdle
    /\ ChatIdle

\* run(), lines 36-41: the order is computed from the config
ComputeOrder ==
    /\ runPc = "input"
    /\ execution_order' = GetExecutionOrder(NodeIdsOf(config), config.edges)
    /\ runPc' = "ordered"
    /\ UNCHANGED <<chatVars, apiVars, fnVars, config, idx, state, calls, logs, runReturn>>

NextOrder == ComputeOrder

SpecOrder == InitOrder /\ [][NextOrder]_vars

----------------------------------------------------------------------------
(* execute_action, the activity *)

max_retries == 3

\* dynamic_workflow.py:87-92, RetryPolicy(maximum_attempts=3): how often the
\* runtime starts execute_action for one execute_activity
maximum_attempts == 3

\* what one attempt ends in: a 2xx response with a JSON body, a response on which
\* raise_for_status raises with status < 500, a 5xx response, a transport error
\* raised by client.post, a 2xx response whose body response.json() cannot decode
HttpOutcomes == {"2xx", "4xx", "5xx", "error", "undecodable"}

ResponseScripts == [1..max_retries -> HttpOutcomes]

ActionResult(status, data, error, action_name) ==
    [status |-> status, data |-> data, error |-> error, action_name |-> action_name]

\* the body the model's action service answers with: {"value": <action_name>}
ResponseJson(action_name) == Dict(<<Item("value", Str(<<action_name>>))>>)

RetryAnyFailure(outcome, attempt) == attempt < max_retries - 1

\* lines 75-90: continue (TRUE) or break (FALSE) after a failed attempt; an
\* HTTPStatusError is retried for a status >= 500, any other exception always,
\* neither on the last attempt
ShouldRetry(outcome, attempt) ==
    IF outcome \in {"4xx", "5xx"}
    THEN outcome = "5xx" /\ attempt < max_retries - 1
    ELSE attempt < max_retries - 1

\* lines 54-99: for attempt in range(max_retries), then the FAILED result
RECURSIVE AttemptLoop(_, _, _, _)
AttemptLoop(action_name, responses, attempt, last_error) ==
    IF attempt >= max_retries
    THEN ActionResult("FAILED", NoneValue, last_error, action_name)
    ELSE LET r == responses[attempt + 1]
         IN IF r = "2xx"
            THEN ActionResult("SUCCESS", ResponseJson(action_name), "", action_name)
            ELSE IF ShouldRetry(r, attempt)
                 THEN AttemptLoop(action_name, responses, attempt + 1, r)
                 ELSE ActionResult("FAILED", NoneValue, r, action_name)

\* lines 35-39: config.get(...) needs a mapping, and raises otherwise
ActionRaises(config_) == config_.t /= "dict"

\* execute_action(action_name, config, state) for a mapping config
ExecuteAction(action_name, config_, responses) ==
    AttemptLoop(action_name, responses, 0, "")

----------------------------------------------------------------------------
(* _interpolate_config and _get_value_from_state *)

Open == <<"{", "{">>
Close == <<"}", "}">>

\* the placeholder text {{path}}
Placeholder(path) == Open \o path \o Close

\* s[i..] begins with pat
StartsWith(s, pat) == Len(pat) <= Len(s) /\ SubSeq(s, 1, Len(pat)) = pat

\* the number of leading tokens of s that are not "}"
RECURSIVE RunLength(_)
RunLength(s) == IF s = <<>> \/ Head(s) = "}" THEN 0 ELSE 1 + RunLength(Tail(s))

\* the pattern \{\{([^}]+)\}\} matched at the start of s: the length of the
\* group, 0 when there is no match there. [^}]+ is greedy and what follows it is
\* "}" or the end, so the run is the only candidate for the group.
GroupAt(s) ==
    IF ~StartsWith(s, Open) THEN 0
    ELSE LET n == RunLength(SubSeq(s, 3, Len(s)))
         IN IF n >= 1 /\ StartsWith(SubSeq(s, 3 + n, Len(s)), Close) THEN n ELSE 0

\* re.findall(pattern, config): the groups of the non-overlapping matches,
\* leftmost first
RECURSIVE FindAll(_)
FindAll(s) ==
    IF s = <<>> THEN <<>>
    ELSE IF GroupAt(s) > 0
         THEN <<SubSeq(s, 3, 2 + GroupAt(s))>> \o FindAll(SubSeq(s, 5 + GroupAt(s), Len(s)))
         ELSE FindAll(Tail(s))

\* s.replace(old, new): every non-overlapping occurrence of old, leftmost first
RECURSIVE Replace(_, _, _)
Replace(s, old, new) ==
    IF s = <<>> THEN <<>>
    ELSE IF StartsWith(s, old)
         THEN new \o Replace(SubSeq(s, Len(old) + 1, Len(s)), old, new)
         ELSE <<Head(s)>> \o Replace(Tail(s), old, new)

\* match.strip()
RECURSIVE Strip(_)
Strip(s) ==
    IF s /= <<>> /\ Head(s) = " " THEN Strip(Tail(s))
    ELSE IF s /= <<>> /\ s[Len(s)] = " " THEN Strip(SubSeq(s, 1, Len(s) - 1))
         ELSE s

\* path.split(".")
RECURSIVE Split(_)
Split(s) ==
    IF \E i \in DOMAIN s : s[i] = "."
    THEN LET i == CHOOSE i \in DOMAIN s : s[i] = "." /\ \A j \in 1..(i - 1) : s[j] /= "."
         IN <<SubSeq(s, 1, i - 1)>> \o Split(SubSeq(s, i + 1, Len(s)))
    ELSE <<s>>

\* value.get(part) on a dict
ValueGet(value, part) ==
    IF \E i \in DOMAIN value.v : <<value.v[i].key>> = part
    THEN value.v[CHOOSE i \in DOMAIN value.v : <<value.v[i].key>> = part].value
    ELSE NoneValue

\* lines 228-236: the descent along the parts
RECURSIVE Descend(_, _)
Descend(parts, value) ==
    IF parts = <<>> THEN value
    ELSE IF value.t = "dict" THEN Descend(Tail(parts), ValueGet(value, Head(parts)))
         ELSE NoneValue

\* _get_value_from_state(path, state)
GetValueFromState(path, state_) == Descend(Split(path), state_)

\* repr(value), and the items of a dict or list joined by ", "
RECURSIVE Repr(_)
RECURSIVE ReprItems(_, _)
Repr(value) ==
    CASE value.t = "str" -> <<"'">> \o value.v \o <<"'">>
      [] value.t = "dict" -> <<"{">> \o ReprItems(value.v, TRUE) \o <<"}">>
      [] value.t = "list" -> <<"[">> \o ReprItems(value.v, FALSE) \o <<"]">>
      [] value.t = "none" -> <<"None">>
      [] value.t = "bool" -> value.v

ReprItems(items, keyed) ==
    IF items = <<>> THEN <<>>
    ELSE (IF keyed
          THEN <<"'", Head(items).key, "'", ":", " ">> \o Repr(Head(items).value)
          ELSE Repr(Head(items)))
         \o (IF Len(items) > 1 THEN <<",", " ">> ELSE <<>>)
         \o ReprItems(Tail(items), keyed)

StrOfNoneEmpty(value) ==
    IF value.t = "str" THEN value.v ELSE IF value.t = "none" THEN <<>> ELSE Repr(value)

StringifyConfig(config_, state_) == Str(Repr(config_))

\* str(value)
StrOf(value) == IF value.t = "str" THEN value.v ELSE Repr(value)

\* lines 199-203: for match in matches, one replace per match on the string the
\* earlier replaces left
RECURSIVE ReplaceEach(_, _, _)
ReplaceEach(matches, s, state_) ==
    IF matches = <<>> THEN s
    ELSE ReplaceEach(Tail(matches),
                     Replace(s, Placeholder(Head(matches)),
                             StrOf(GetValueFromState(Strip(Head(matches)), state_))),
                     state_)

\* _interpolate_config(config, state)
RECURSIVE InterpolateConfig(_, _)
InterpolateConfig(config_, state_) ==
    CASE config_.t = "str" -> Str(ReplaceEach(FindAll(config_.v), config_.v, state_))
      [] config_.t = "dict" ->
            Dict([i \in DOMAIN config_.v |->
                    Item(config_.v[i].key, InterpolateConfig(config_.v[i].value, state_))])
      [] config_.t = "list" ->
            List([i \in DOMAIN config_.v |-> InterpolateConfig(config_.v[i], state_)])
      [] OTHER -> config_

----------------------------------------------------------------------------
(* SpecRun: DynamicWorkflow.run, one iteration of its loop per step *)

\* node types: the three run() handles, and any other string the schema admits
NodeTypes == {"action", "condition", "loop", "other"}

Node(id, type, config_) == [id |-> id, type |-> type, config |-> config_]

\* data.config of an action node (data: Dict[str, Any] admits any JSON value):
\* an empty mapping, a mapping that refers to the result of node a, a string
NodeConfigs ==
    {Dict(<<>>),
     Dict(<<Item("msg", Str(Placeholder(<<"results", ".", "a", ".", "data", ".", "value">>)))>>),
     Str(<<"hi">>)}

\* the kinds of node: an action with one of the configs, or another type
NodeKinds ==
    {[type |-> "action", config |-> c] : c \in NodeConfigs}
        \cup {[type |-> t, config |-> Dict(<<>>)] : t \in NodeTypes \ {"action"}}

RunNodeLists ==
    {<<"a">>, <<"a", "b">>, <<"b", "a">>, <<"a", "b", "c">>, <<"c", "b", "a">>}

RunEdgeLists ==
    {<<>>, <<Edge("a", "b")>>, <<Edge("b", "a")>>, <<Edge("a", "b"), Edge("b", "c")>>,
     <<Edge("a", "b"), Edge("b", "a")>>, <<Edge("a", "x")>>}

\* the node of the config with this id (nodes[node_id])
NodeById(cfg, id) == cfg.nodes[IndexOf(NodeIdsOf(cfg), id)]

\* the action a node names; the model names it after the node
ActionNameOf(node) == "act_" \o node.id

\* a dict as the sequence of its items in insertion order: d[k] = v
DictSet(d, k, v) ==
    IF \E i \in DOMAIN d : d[i].key = k
    THEN [i \in DOMAIN d |-> IF d[i].key = k THEN [key |-> k, value |-> v] ELSE d[i]]
    ELSE Append(d, [key |-> k, value |-> v])

DictKeys(d) == {d[i].key : i \in DOMAIN d}
DictGet(d, k) == d[CHOOSE i \in DOMAIN d : d[i].key = k].value

\* _evaluate_condition: always True
EvaluateCondition(node) == ActionResult("TRUE", NoneValue, "", "")

\* _execute_loop: the items of the collection, [] when it is not a list; the
\* model's inputs are {} and action data is opaque, so no path reaches a list
ExecuteLoop(node) == ActionResult("LIST", NoneValue, "", "")

\* lines 67-71: the value run() returns
RunResult(results) ==
    [status |-> "COMPLETED", data |-> results, errors |-> <<>>]

InitRun ==
    /\ pyEnumStr = "value"
    /\ workflows = <<>>
    /\ executions = <<>>
    /\ runtime = <<>>
    /\ now = 1
    /\ req = Idle
    /\ resp = NoResp
    /\ \E ids \in RunNodeLists, es \in RunEdgeLists :
          \E kinds \in [DOMAIN ids -> NodeKinds] :
             config = [nodes |-> [i \in DOMAIN ids |->
                                    Node(ids[i], kinds[i].type, kinds[i].config)],
                       edges |-> es]
    /\ execution_order = <<>>
    /\ idx = 0
    /\ state = <<>>
    /\ calls = <<>>
    /\ logs = <<>>
    /\ runPc = "input"
    /\ runReturn = <<>>
    /\ FnIdle
    /\ ChatIdle

\* lines 33-43: state is initialised and the order computed
RunStart ==
    /\ runPc = "input"
    /\ execution_order' = GetExecutionOrder(NodeIdsOf(config), config.edges)
    /\ idx' = 1
    /\ state' = <<>>
    /\ runPc' = "running"
    /\ UNCHANGED <<chatVars, apiVars, fnVars, config, calls, logs, runReturn>>

CurrentNode == NodeById(config, execution_order[idx])

\* a result of the run as state["results"] holds it
ResultValue(r) ==
    CASE r.status = "SUCCESS" ->
            Dict(<<Item("status", Str(<<"SUCCESS">>)), Item("data", r.data),
                   Item("action_name", Str(<<r.action_name>>))>>)
      [] r.status = "FAILED" ->
            Dict(<<Item("status", Str(<<"FAILED">>)), Item("error", Str(<<r.error>>)),
                   Item("action_name", Str(<<r.action_name>>))>>)
      [] r.status = "TRUE" -> TrueValue
      [] r.status = "LIST" -> List(<<>>)

EmptyStateValue(results) ==
    Dict(<<Item("inputs", Dict(<<>>)), Item("results", Dict(<<>>))>>)

\* line 34 and lines 55-63: state = {"inputs": inputs, "results": {...}}, the
\* inputs of the modelled run being {}
StateValue(results) ==
    Dict(<<Item("inputs", Dict(<<>>)),
           Item("results", Dict([i \in DOMAIN results |->
                                   Item(results[i].key, ResultValue(results[i].value))]))>>)

\* lines 75-79: the config execute_action is called with
InterpolatedConfig == InterpolateConfig(CurrentNode.config, StateValue(state))

\* one execute_activity(execute_action, ...) of the run: the node, the config
\* passed, and how it ended
Call(id, config_, outcome) == [node |-> id, config |-> config_, outcome |-> outcome]

InLoop == runPc = "running" /\ idx <= Len(execution_order)

\* lines 52-55: an action node whose activity returns a result
RunActionNode ==
    /\ InLoop
    /\ CurrentNode.type = "action"
    /\ ~ActionRaises(InterpolatedConfig)
    /\ \E result \in {ExecuteAction(ActionNameOf(CurrentNode), InterpolatedConfig, responses) :
                          responses \in ResponseScripts} :
          /\ state' = DictSet(state, CurrentNode.id, result)
          /\ calls' = Append(calls, Call(CurrentNode.id, InterpolatedConfig, result.status))
    /\ idx' = idx + 1
    /\ UNCHANGED <<chatVars, apiVars, fnVars, config, execution_order, logs, runPc, runReturn>>

\* lines 52-54: an action node whose activity raises on each of the runtime's
\* attempts; execute_activity raises and run() ends with that exception
RunActionRaises ==
    /\ InLoop
    /\ CurrentNode.type = "action"
    /\ ActionRaises(InterpolatedConfig)
    /\ calls' = Append(calls, Call(CurrentNode.id, InterpolatedConfig, "RAISED"))
    /\ runPc' = "raised"
    /\ UNCHANGED <<chatVars, apiVars, fnVars, config, execution_order, idx, state, logs, runReturn>>

\* lines 56-59: a condition node
RunConditionNode ==
    /\ InLoop
    /\ CurrentNode.type = "condition"
    /\ state' = DictSet(state, CurrentNode.id, EvaluateCondition(CurrentNode))
    /\ idx' = idx + 1
    /\ UNCHANGED <<chatVars, apiVars, fnVars, config, execution_order, calls, logs, runPc, runReturn>>

\* lines 60-63: a loop node
RunLoopNode ==
    /\ InLoop
    /\ CurrentNode.type = "loop"
    /\ state' = DictSet(state, CurrentNode.id, ExecuteLoop(CurrentNode))
    /\ idx' = idx + 1
    /\ UNCHANGED <<chatVars, apiVars, fnVars, config, execution_order, calls, logs, runPc, runReturn>>

\* lines 52-63: a node of another type matches no branch
RunOtherNode ==
    /\ InLoop
    /\ CurrentNode.type \notin {"action", "condition", "loop"}
    /\ idx' = idx + 1
    /\ UNCHANGED <<chatVars, apiVars, fnVars, config, execution_order, state, calls, logs, runPc, runReturn>>

\* lines 65-71: the loop is over and run() returns
RunReturn ==
    /\ runPc = "running"
    /\ idx > Len(execution_order)
    /\ runReturn' = RunResult(state)
    /\ runPc' = "done"
    /\ UNCHANGED <<chatVars, apiVars, fnVars, config, execution_order, idx, state, calls, logs>>

NextRun ==
    \/ RunStart
    \/ RunActionNode
    \/ RunActionRaises
    \/ RunConditionNode
    \/ RunLoopNode
    \/ RunOtherNode
    \/ RunReturn

SpecRun == InitRun /\ [][NextRun]_vars

----------------------------------------------------------------------------
(* Claims about the execution lifecycle, checked under Spec *)

ExecSet == 1..Len(executions)

\* a response to operation op on execution e is produced by this step
Answered(op, e) == resp' /= resp /\ resp'.op = op /\ resp'.id = e

\* C1: once an Execution's status is COMPLETED, FAILED or CANCELLED, no cancel or
\* sync changes it again, whatever status the runtime reports.
C1_TerminalAbsorbing ==
    [][\A e \in ExecSet :
          executions[e].status \in TerminalStatuses
              => executions'[e].status = executions[e].status]_vars

\* C2: every Execution whose status is COMPLETED, FAILED or CANCELLED has
\* completed_at set, and every Execution whose status is RUNNING has it null.
C2_CompletedAtMatchesStatus ==
    \A e \in ExecSet :
        /\ executions[e].status \in TerminalStatuses => IsSet(executions[e].completed_at)
        /\ executions[e].status = "RUNNING" => executions[e].completed_at = None

\* an execution was started and cancelled: it is CANCELLED with completed_at set
C2_Witness ==
    \E e \in ExecSet :
        /\ executions[e].status = "CANCELLED"
        /\ IsSet(executions[e].completed_at)
        /\ resp.op = "cancel" /\ resp.code = 200

\* C3: the stored status of every Execution is one of RUNNING, COMPLETED, FAILED,
\* CANCELLED.
C3_StatusInDocumentedSet ==
    \A e \in ExecSet : executions[e].status \in LocalStatuses

\* C4: cancel_execution is taken up only for a RUNNING execution; for any other
\* status it answers 400 carrying the observed status, sends no signal and leaves
\* the records unchanged; it answers 200 only for an execution that was RUNNING.
C4_CancelOnlyWhenRunning ==
    [][/\ (req = Idle /\ req' /= Idle) => executions[req'.id].status = "RUNNING"
       /\ \A e \in ExecSet :
             /\ (req = Idle /\ Answered("cancel", e) /\ executions[e].status /= "RUNNING")
                   => /\ resp'.code = 400
                      /\ resp'.detail = executions[e].status
                      /\ executions' = executions
                      /\ runtime' = runtime
                      /\ req' = Idle
             /\ (Answered("cancel", e) /\ resp'.code = 200)
                   => executions[e].status = "RUNNING"]_vars

\* a second cancel after a successful one was rejected with the observed status
C4_Witness ==
    /\ resp.op = "cancel" /\ resp.code = 400 /\ resp.detail = "CANCELLED"
    /\ \E e \in ExecSet : resp.id = e /\ executions[e].status = "CANCELLED"

\* C5: the local record becomes CANCELLED only after the runtime got the cancel
\* signal; a cancel answered 200 leaves the Execution CANCELLED with completed_at
\* set; a cancel answered 500 leaves the Execution records as they were.
C5_SignalThenMark ==
    [][\A e \in ExecSet :
          /\ (executions'[e].status = "CANCELLED" /\ executions[e].status /= "CANCELLED")
                => runtime[executions[e].temporal_workflow_id].cancel_requested
          /\ (Answered("cancel", e) /\ resp'.code = 200)
                => /\ executions'[e].status = "CANCELLED"
                   /\ IsSet(executions'[e].completed_at)
          /\ (Answered("cancel", e) /\ resp'.code = 500)
                => /\ executions'[e] = req.before
                   /\ executions' = executions]_vars

\* a cancel succeeded: the runtime holds the request and the record is CANCELLED
C5_Witness ==
    /\ resp.op = "cancel" /\ resp.code = 200
    /\ \E e \in ExecSet :
          /\ resp.id = e
          /\ executions[e].status = "CANCELLED"
          /\ IsSet(executions[e].completed_at)
          /\ runtime[executions[e].temporal_workflow_id].cancel_requested

\* the local status that stands for a runtime outcome
LocalOutcome(s) ==
    CASE s = "COMPLETED" -> "COMPLETED"
      [] s = "FAILED" -> "FAILED"
      [] s = "CANCELED" -> "CANCELLED"

\* C6: a sync of a RUNNING Execution whose workflow the runtime reports completed,
\* failed or cancelled leaves the corresponding local status with completed_at
\* set; a sync that reads the status the record already has writes nothing.
C6_ReconcilePropagates ==
    [][\A e \in ExecSet :
          (Answered("sync", e) /\ executions[e].status = "RUNNING")
             => /\ resp'.seen \in {"COMPLETED", "FAILED", "CANCELED"}
                   => /\ executions'[e].status = LocalOutcome(resp'.seen)
                      /\ IsSet(executions'[e].completed_at)
                /\ resp'.seen = "RUNNING" => executions' = executions]_vars

\* C24: an execute request answered 200 has created exactly one Execution, with
\* status RUNNING, completed_at null and the runtime id of the workflow run it
\* started, and returns that Execution's id; an execute request answered 404 (an
\* unknown workflow id) has started nothing in the runtime and created no
\* Execution, and no Execution is ever created for an unknown workflow.
C24_ExecuteCreatesOneRunning ==
    [][(resp' /= resp /\ resp'.op = "execute")
          => /\ resp'.code = 200 =>
                   /\ Len(executions') = Len(executions) + 1
                   /\ SubSeq(executions', 1, Len(executions)) = executions
                   /\ resp'.id = Len(executions')
                   /\ executions'[resp'.id].status = "RUNNING"
                   /\ executions'[resp'.id].completed_at = None
                   /\ executions'[resp'.id].workflow_id \in DOMAIN workflows
                   /\ Len(runtime') = Len(runtime) + 1
                   /\ SubSeq(runtime', 1, Len(runtime)) = runtime
                   /\ executions'[resp'.id].temporal_workflow_id = Len(runtime')
                   /\ runtime'[Len(runtime')].status = "RUNNING"
             /\ resp'.code /= 200 => executions' = executions
             /\ resp'.code = 404 => runtime' = runtime]_vars

\* an execute request was answered 200 with the id of a RUNNING Execution that
\* carries the id of a run the runtime holds
C24_Witness ==
    /\ resp.op = "execute" /\ resp.code = 200
    /\ resp.id \in ExecSet
    /\ executions[resp.id].status = "RUNNING"
    /\ executions[resp.id].completed_at = None
    /\ executions[resp.id].temporal_workflow_id \in DOMAIN runtime

----------------------------------------------------------------------------
(* Claims about the execution order, checked under SpecOrder *)

EdgePairs(cfg) == {<<e.source, e.target>> : e \in Range(cfg.edges)}

\* the pairs (u, v) with a directed path of one or more edges from u to v
RECURSIVE PathClosure(_)
PathClosure(R) ==
    LET step == R \cup {<<p[1][1], p[2][2]>> : p \in {pq \in R \X R : pq[1][2] = pq[2][1]}}
    IN IF step = R THEN R ELSE PathClosure(step)

Acyclic(cfg) == \A p \in PathClosure(EdgePairs(cfg)) : p[1] /= p[2]

EndpointsResolve(cfg) ==
    \A e \in Range(cfg.edges) :
        e.source \in Range(NodeIdsOf(cfg)) /\ e.target \in Range(NodeIdsOf(cfg))

\* u occurs in order, v occurs in order, and every u comes before every v
StrictlyBefore(order, u, v) ==
    /\ \E i \in DOMAIN order : order[i] = u
    /\ \E j \in DOMAIN order : order[j] = v
    /\ \A i, j \in DOMAIN order : (order[i] = u /\ order[j] = v) => i < j

\* C10: for every acyclic graph whose edge endpoints all resolve, the order
\* _get_execution_order returns has u strictly before v for every edge (u, v).
C10_OrderRespectsEdges ==
    (runPc = "ordered" /\ Acyclic(config) /\ EndpointsResolve(config))
        => \A e \in Range(config.edges) :
              StrictlyBefore(execution_order, e.source, e.target)

\* a chain a -> b -> c given with the nodes inserted as c, b, a
C10_Witness ==
    /\ runPc = "ordered"
    /\ NodeIdsOf(config) = <<"c", "b", "a">>
    /\ config.edges = <<Edge("b", "c"), Edge("a", "b")>>
    /\ Acyclic(config) /\ EndpointsResolve(config)
    /\ execution_order = <<"a", "b", "c">>

----------------------------------------------------------------------------
(* Claims about DynamicWorkflow.run, checked under SpecRun *)

\* the action nodes whose activity returned status FAILED, in execution order
FailedNodes == SelectIn(execution_order, {c.node : c \in {d \in Range(calls) : d.outcome = "FAILED"}})

\* the run reached the node at position j of the order
Dispatched(j) == j < idx \/ (j = idx /\ runPc = "raised")

\* C7: at close the run is marked FAILED if and only if an action node returned
\* FAILED, with the error naming the first failed node; COMPLETED only when none
\* failed.
C7_FailedIffNodeFailed ==
    runPc = "done" =>
        /\ runReturn.status = "FAILED" <=> FailedNodes /= <<>>
        /\ runReturn.status = "COMPLETED" => FailedNodes = <<>>
        /\ FailedNodes /= <<>> => runReturn.errors = <<Head(FailedNodes)>>

\* C8: when the run has ended, every node that comes after a failed action node in
\* the execution order was dispatched, and the failed node's result is in
\* state.results under its node id.
C8_FailedNodeDoesNotAbort ==
    runPc \in {"done", "raised"} =>
        \A i \in DOMAIN execution_order :
            (\E c \in Range(calls) : c.node = execution_order[i] /\ c.outcome = "FAILED")
                => /\ execution_order[i] \in DictKeys(state)
                   /\ DictGet(state, execution_order[i]).status = "FAILED"
                   /\ \A j \in (i + 1)..Len(execution_order) : Dispatched(j)

\* C9: after each node finishes one ExecutionLog has been appended for it, so a
\* completed run of n nodes has n step logs, the i-th for the i-th node.
C9_OneLogPerNode ==
    /\ runPc = "running" => Len(logs) = idx - 1
    /\ runPc = "done" =>
          /\ Len(logs) = Len(execution_order)
          /\ \A i \in DOMAIN logs : logs[i].step_name = execution_order[i]

\* the largest set of nodes each of which has an edge from a node of the set:
\* the nodes on a cycle or downstream of one, whose in-degree never reaches 0
RECURSIVE Stuck(_, _)
Stuck(cfg, S) ==
    LET fed == {n \in S : \E p \in EdgePairs(cfg) : p[1] \in S /\ p[2] = n}
    IN IF fed = S THEN S ELSE Stuck(cfg, fed)

NeverEmitted(cfg) == Stuck(cfg, Range(NodeIdsOf(cfg)))

\* C11: for every node list and edge list (cycles, duplicate edges and unknown
\* endpoints included) the returned order holds every node id exactly once, and
\* the nodes Kahn's loop never emits come after the emitted ones, in the
\* insertion order of the nodes.
C11_EveryNodeOnce ==
    runPc = "ordered" =>
        LET ids == NodeIdsOf(config)
            k == Len(ids) - Cardinality(NeverEmitted(config))
        IN /\ Len(execution_order) = Len(ids)
           /\ \A n \in Range(ids) :
                 Cardinality({i \in DOMAIN execution_order : execution_order[i] = n}) = 1
           /\ Range(SubSeq(execution_order, 1, k)) \cap NeverEmitted(config) = {}
           /\ SubSeq(execution_order, k + 1, Len(ids)) = SelectIn(ids, NeverEmitted(config))

\* nodes inserted as a, b, c with the self-loop a -> a given twice: b and c are
\* emitted, and a, first in insertion order, follows them
C11_Witness ==
    /\ runPc = "ordered"
    /\ NodeIdsOf(config) = <<"a", "b", "c">>
    /\ config.edges = <<Edge("a", "a"), Edge("a", "a")>>
    /\ NeverEmitted(config) = {"a"}
    /\ execution_order = <<"b", "c", "a">>

----------------------------------------------------------------------------
(* validate_workflow_graph and _has_cycle (app/utils/validation.py) *)

ErrNoNodes == "Workflow must have at least one node"
ErrSource(id) == "Edge source '" \o id \o "' references non-existent node"
ErrTarget(id) == "Edge target '" \o id \o "' references non-existent node"
ErrCycle == "Workflow contains cycles, which are not allowed"
ErrNoStart == "Workflow must have at least one start node (node with no incoming edges)"
ErrNoEnd == "Workflow must have at least one end node (node with no outgoing edges)"

\* the orders in which a for loop may iterate the set S
IterationOrders(S) ==
    {s \in [1..Cardinality(S) -> S] : \A i, j \in DOMAIN s : s[i] = s[j] => i = j}

NoEndpointErrors(edges, node_ids) == <<>>

\* validation.py:28-32, one or two messages per edge, in edge order
RECURSIVE EndpointErrors(_, _)
EndpointErrors(edges, node_ids) ==
    IF edges = <<>> THEN <<>>
    ELSE LET edge == Head(edges)
         IN (IF edge.source \notin node_ids THEN <<ErrSource(edge.source)>> ELSE <<>>)
            \o (IF edge.target \notin node_ids THEN <<ErrTarget(edge.target)>> ELSE <<>>)
            \o EndpointErrors(Tail(edges), node_ids)

\* validation.py:79-81: every edge whose source is a node, whatever its target
RECURSIVE BuildAdjacency(_, _)
BuildAdjacency(edges, adjacency) ==
    IF edges = <<>> THEN adjacency
    ELSE BuildAdjacency(Tail(edges),
                        IF Head(edges).source \in DOMAIN adjacency
                        THEN [adjacency EXCEPT ![Head(edges).source] =
                                                  Append(@, Head(edges).target)]
                        ELSE adjacency)

\* adjacency.get(node_id, [])
AdjacencyGet(adjacency, node_id) ==
    IF node_id \in DOMAIN adjacency THEN adjacency[node_id] ELSE <<>>

AnyVisited(neighbor, rec_stack) == TRUE

\* validation.py:95: a visited neighbour closes a cycle when it is on the stack
OnRecStack(neighbor, rec_stack) == neighbor \in rec_stack

\* validation.py:87-99: dfs(node_id) and its loop over the neighbours; the
\* value is what dfs returned and the visited set it left
RECURSIVE Dfs(_, _, _, _)
RECURSIVE DfsNeighbors(_, _, _, _)
Dfs(node_id, adjacency, visited, rec_stack) ==
    DfsNeighbors(AdjacencyGet(adjacency, node_id), adjacency,
                 visited \cup {node_id}, rec_stack \cup {node_id})

DfsNeighbors(neighbors, adjacency, visited, rec_stack) ==
    IF neighbors = <<>> THEN [found |-> FALSE, visited |-> visited]
    ELSE LET neighbor == Head(neighbors)
         IN IF neighbor \notin visited
            THEN LET r == Dfs(neighbor, adjacency, visited, rec_stack)
                 IN IF r.found THEN r
                    ELSE DfsNeighbors(Tail(neighbors), adjacency, r.visited, rec_stack)
            ELSE IF OnRecStack(neighbor, rec_stack)
                 THEN [found |-> TRUE, visited |-> visited]
                 ELSE DfsNeighbors(Tail(neighbors), adjacency, visited, rec_stack)

\* validation.py:102-107: for node_id in node_ids, in the order the set yields
RECURSIVE CheckEachNode(_, _, _)
CheckEachNode(order, adjacency, visited) ==
    IF order = <<>> THEN FALSE
    ELSE IF Head(order) \in visited THEN CheckEachNode(Tail(order), adjacency, visited)
         ELSE LET r == Dfs(Head(order), adjacency, visited, {})
              IN r.found \/ CheckEachNode(Tail(order), adjacency, r.visited)

\* _has_cycle(nodes, edges), order being the iteration order of the id set
HasCycle(nodes, edges, order) ==
    LET node_ids == {nodes[i].id : i \in DOMAIN nodes}
    IN CheckEachNode(order, BuildAdjacency(edges, [n \in node_ids |-> <<>>]), {})

\* validation.py:39-46
OutDegrees(edges, node_ids) ==
    [n \in node_ids |-> Cardinality({i \in DOMAIN edges : edges[i].source = n})]

InDegrees(edges, node_ids) ==
    [n \in node_ids |-> Cardinality({i \in DOMAIN edges : edges[i].target = n})]

\* validate_workflow_graph(nodes, edges)
ValidateWorkflowGraph(nodes, edges, order) ==
    IF nodes = <<>>
    THEN [is_valid |-> FALSE, errors |-> <<ErrNoNodes>>]
    ELSE LET node_ids == {nodes[i].id : i \in DOMAIN nodes}
             in_degrees == InDegrees(edges, node_ids)
             out_degrees == OutDegrees(edges, node_ids)
             errors ==
                 EndpointErrors(edges, node_ids)
                 \o (IF HasCycle(nodes, edges, order) THEN <<ErrCycle>> ELSE <<>>)
                 \o (IF \A n \in node_ids : in_degrees[n] /= 0 THEN <<ErrNoStart>> ELSE <<>>)
                 \o (IF \A n \in node_ids : out_degrees[n] /= 0 THEN <<ErrNoEnd>> ELSE <<>>)
         IN [is_valid |-> Len(errors) = 0, errors |-> errors]

----------------------------------------------------------------------------
(* SpecValidate: validate_workflow_graph applied to every small graph *)

\* the nodes argument is a list: an id may repeat
ValidateNodeLists == UNION {[1..n -> NodePool] : n \in 0..Cardinality(NodePool)}

InitValidate ==
    /\ ApiIdle
    /\ \E ids \in ValidateNodeLists, es \in EdgeLists :
          config = [nodes |-> [i \in DOMAIN ids |-> PlainNode(ids[i])], edges |-> es]
    /\ execution_order = <<>>
    /\ idx = 0
    /\ state = <<>>
    /\ calls = <<>>
    /\ logs = <<>>
    /\ runPc = "input"
    /\ runReturn = <<>>
    /\ FnIdle
    /\ ChatIdle

ValidateGraph ==
    /\ runPc = "input"
    /\ \E order \in IterationOrders(Range(NodeIdsOf(config))) :
          validation' = ValidateWorkflowGraph(config.nodes, config.edges, order)
    /\ runPc' = "validated"
    /\ UNCHANGED <<chatVars, apiVars, config, execution_order, idx, state, calls, logs, runReturn,
                   interp, activity>>

NextValidate == ValidateGraph

SpecValidate == InitValidate /\ [][NextValidate]_vars

----------------------------------------------------------------------------
(* Claims about the validator, checked under SpecValidate *)

\* the edges of the graph on the nodes: those joining two of its nodes
GraphEdges(cfg) ==
    {p \in EdgePairs(cfg) : p[1] \in Range(NodeIdsOf(cfg)) /\ p[2] \in Range(NodeIdsOf(cfg))}

HasDirectedCycle(cfg) == \E p \in PathClosure(GraphEdges(cfg)) : p[1] = p[2]

ErrorSet == Range(validation.errors)

\* C13: the validator reports the cycle error exactly when the directed graph on
\* the nodes contains a directed cycle, a self-loop counting as one; an acyclic
\* graph never gets the cycle error.
C13_CycleErrorIffCycle ==
    runPc = "validated" => (ErrCycle \in ErrorSet <=> HasDirectedCycle(config))

\* a self-loop on b, reached only through a, is reported as a cycle
C13_Witness ==
    /\ runPc = "validated"
    /\ NodeIdsOf(config) = <<"a", "b">>
    /\ config.edges = <<Edge("a", "b"), Edge("b", "b")>>
    /\ ErrCycle \in ErrorSet

\* the number of edges of the list that enter, or leave, node n
InDegreeOf(cfg, n) == Cardinality({i \in DOMAIN cfg.edges : cfg.edges[i].target = n})
OutDegreeOf(cfg, n) == Cardinality({i \in DOMAIN cfg.edges : cfg.edges[i].source = n})

HasStart(cfg) == \E n \in Range(NodeIdsOf(cfg)) : InDegreeOf(cfg, n) = 0
HasEnd(cfg) == \E n \in Range(NodeIdsOf(cfg)) : OutDegreeOf(cfg, n) = 0

\* C14: every (nodes, edges) the validator accepts has at least one node, every
\* edge source and target among the node ids, a node of in-degree 0, a node of
\* out-degree 0, and no directed cycle.
C14_AcceptedGraphIsLegal ==
    (runPc = "validated" /\ validation.is_valid) =>
        /\ Len(config.nodes) >= 1
        /\ EndpointsResolve(config)
        /\ HasStart(config)
        /\ HasEnd(config)
        /\ Acyclic(config)

\* the chain c -> b -> a is accepted, with no error
C14_Witness ==
    /\ runPc = "validated"
    /\ NodeIdsOf(config) = <<"a", "b", "c">>
    /\ config.edges = <<Edge("c", "b"), Edge("b", "a")>>
    /\ validation = [is_valid |-> TRUE, errors |-> <<>>]

\* C15: the validator does not short-circuit: the returned list has an error for
\* each check the input violates (nodes non-empty, edge endpoints resolve,
\* acyclic, a start and an end node), also when nodes is empty and the edges
\* reference non-existent nodes.
C15_EveryViolatedCheckReported ==
    runPc = "validated" =>
        /\ config.nodes = <<>> => ErrNoNodes \in ErrorSet
        /\ \A e \in Range(config.edges) :
              /\ e.source \notin Range(NodeIdsOf(config)) => ErrSource(e.source) \in ErrorSet
              /\ e.target \notin Range(NodeIdsOf(config)) => ErrTarget(e.target) \in ErrorSet
        /\ HasDirectedCycle(config) => ErrCycle \in ErrorSet
        /\ (config.nodes /= <<>> /\ ~HasStart(config)) => ErrNoStart \in ErrorSet
        /\ (config.nodes /= <<>> /\ ~HasEnd(config)) => ErrNoEnd \in ErrorSet

\* the active rows of the actions table (Action.action_name, is_active)
Catalog == {"act_a", "act_b"}

\* C16: a graph holding an action node whose action_name does not resolve to an
\* active catalog entry is rejected, with at least one error; a graph is accepted
\* only if every action node resolves.
C16_ActionNamesResolve ==
    runPc = "validated" =>
        \A i \in DOMAIN config.nodes :
            (config.nodes[i].type = "action" /\ ActionNameOf(config.nodes[i]) \notin Catalog)
                => (~validation.is_valid /\ validation.errors /= <<>>)

----------------------------------------------------------------------------
(* SpecCrud: create_workflow, update_workflow, delete_workflow *)

\* ids uuid4() may return
WorkflowIdPool == {"w1", "w2"}

WorkflowNames == {"n1", "n2"}

\* the graphs a request may carry (WorkflowConfig checks field types only): a
\* chain, a two-node cycle, an edge to a node that does not exist, no node
CrudConfigs ==
    {[nodes |-> <<PlainNode("a"), PlainNode("b")>>, edges |-> <<Edge("a", "b")>>],
     [nodes |-> <<PlainNode("a"), PlainNode("b")>>,
      edges |-> <<Edge("a", "b"), Edge("b", "a")>>],
     [nodes |-> <<PlainNode("a")>>, edges |-> <<Edge("a", "x")>>],
     [nodes |-> <<>>, edges |-> <<>>]}

NoUniqueViolation(rows) == FALSE

\* uq_workflow_name_version (models/workflow.py:26-28): the commit raises
\* IntegrityError when two rows would hold the same name and version
UniqueViolation(rows) ==
    \E v, w \in DOMAIN rows :
        v /= w /\ rows[v].name = rows[w].name /\ rows[v].version = rows[w].version

\* an Optional field of WorkflowUpdate: None, or <<value>>
Optional(S) == {None} \cup {<<x>> : x \in S}

UpdatedWorkflowSameVersion(row, name, cfg) ==
    [row EXCEPT !.name = IF IsSet(name) THEN Head(name) ELSE @,
                !.config = IF IsSet(cfg) THEN Head(cfg) ELSE @]

\* the row update_workflow leaves: fields that are not None replace the old ones
UpdatedWorkflow(row, name, cfg) ==
    [row EXCEPT !.name = IF IsSet(name) THEN Head(name) ELSE @,
                !.config = IF IsSet(cfg) THEN Head(cfg) ELSE @,
                !.version = @ + 1]

InitCrud ==
    /\ pyEnumStr = "value"
    /\ workflows = <<>>
    /\ executions = <<>>
    /\ runtime = <<>>
    /\ now = 1
    /\ req = Idle
    /\ resp = NoResp
    /\ RunIdle
    /\ FnIdle
    /\ ChatIdle

\* POST /workflows: the row is stored with version 1
CreateStored(name, cfg) ==
    /\ \E id \in WorkflowIdPool \ DOMAIN workflows :
          /\ ~UniqueViolation(workflows @@ (id :> Workflow(name, 1, cfg, TRUE)))
          /\ workflows' = workflows @@ (id :> Workflow(name, 1, cfg, TRUE))
          /\ resp' = Respond("create", id, 201, "")
    /\ UNCHANGED <<chatVars, pyEnumStr, executions, runtime, now, req, runVars, fnVars>>

\* POST /workflows: the commit raises and nothing is stored
CreateConflict(name, cfg) ==
    /\ \E id \in WorkflowIdPool \ DOMAIN workflows :
          /\ UniqueViolation(workflows @@ (id :> Workflow(name, 1, cfg, TRUE)))
          /\ resp' = Respond("create", id, 500, "")
    /\ UNCHANGED <<chatVars, pyEnumStr, workflows, executions, runtime, now, req, runVars, fnVars>>

create_workflow(name, cfg) ==
    \/ CreateStored(name, cfg)
    \/ CreateConflict(name, cfg)

UpdateNotFound(id) ==
    /\ id \notin DOMAIN workflows
    /\ resp' = Respond("update", id, 404, "")
    /\ UNCHANGED <<chatVars, pyEnumStr, workflows, executions, runtime, now, req, runVars, fnVars>>

\* PUT /workflows/{id}: the row is changed in place and its version incremented
UpdateStored(id, name, cfg) ==
    /\ id \in DOMAIN workflows
    /\ workflows[id].version < MaxVersion
    /\ LET rows == [workflows EXCEPT ![id] = UpdatedWorkflow(@, name, cfg)]
       IN /\ ~UniqueViolation(rows)
          /\ workflows' = rows
    /\ resp' = Respond("update", id, 200, "")
    /\ UNCHANGED <<chatVars, pyEnumStr, executions, runtime, now, req, runVars, fnVars>>

\* PUT /workflows/{id}: the commit raises and the row stays as it was
UpdateConflict(id, name, cfg) ==
    /\ id \in DOMAIN workflows
    /\ workflows[id].version < MaxVersion
    /\ UniqueViolation([workflows EXCEPT ![id] = UpdatedWorkflow(@, name, cfg)])
    /\ resp' = Respond("update", id, 500, "")
    /\ UNCHANGED <<chatVars, pyEnumStr, workflows, executions, runtime, now, req, runVars, fnVars>>

update_workflow(id, name, cfg) ==
    \/ UpdateNotFound(id)
    \/ UpdateStored(id, name, cfg)
    \/ UpdateConflict(id, name, cfg)

DeleteNotFound(id) ==
    /\ id \notin DOMAIN workflows
    /\ resp' = Respond("delete", id, 404, "")
    /\ UNCHANGED <<chatVars, pyEnumStr, workflows, executions, runtime, now, req, runVars, fnVars>>

\* DELETE /workflows/{id}: soft delete
DeleteStored(id) ==
    /\ id \in DOMAIN workflows
    /\ workflows' = [workflows EXCEPT ![id].is_active = FALSE]
    /\ resp' = Respond("delete", id, 200, "")
    /\ UNCHANGED <<chatVars, pyEnumStr, executions, runtime, now, req, runVars, fnVars>>

delete_workflow(id) ==
    \/ DeleteNotFound(id)
    \/ DeleteStored(id)

NextCrud ==
    \/ \E name \in WorkflowNames, cfg \in CrudConfigs : create_workflow(name, cfg)
    \/ \E id \in WorkflowIdPool, name \in Optional(WorkflowNames),
          cfg \in Optional(CrudConfigs) : update_workflow(id, name, cfg)
    \/ \E id \in WorkflowIdPool : delete_workflow(id)

SpecCrud == InitCrud /\ [][NextCrud]_vars

----------------------------------------------------------------------------
(* Claims about the stored workflows, checked under SpecCrud *)

LegalGraph(cfg) ==
    /\ Acyclic(cfg)
    /\ EndpointsResolve(cfg)
    /\ HasStart(cfg)
    /\ HasEnd(cfg)

\* C17: every workflow stored by create_workflow or update_workflow has a legal
\* graph (acyclic, all edge endpoints resolve, a source and a sink exist); a
\* request with an illegal graph persists nothing.
C17_StoredGraphsLegal ==
    \A id \in DOMAIN workflows : LegalGraph(workflows[id].config)

----------------------------------------------------------------------------
(* SpecAction: one invocation of execute_action, one HTTP call per step *)

\* the config values an invocation is given: mappings and other JSON values
ActivityConfigs ==
    {Dict(<<>>), Dict(<<Item("data", Dict(<<Item("msg", Str(<<"hi">>))>>))>>),
     Str(<<"hi">>), List(<<>>), NoneValue}

NoResult == ActionResult("", NoneValue, "", "")

InitAction ==
    /\ ApiIdle
    /\ RunIdle
    /\ validation = <<>>
    /\ ChatIdle
    /\ interp = <<>>
    /\ \E name \in {"act_a", "act_c"}, cfg \in ActivityConfigs :
          activity = [action_name |-> name, config |-> cfg, pc |-> "called",
                      attempt |-> 0, http_calls |-> <<>>, last_error |-> "",
                      result |-> NoResult, run_attempt |-> 1, sent |-> 0]

\* lines 35-39: the request body is built from a mapping
ActivityBuildRequest ==
    /\ activity.pc = "called"
    /\ ~ActionRaises(activity.config)
    /\ activity' = [activity EXCEPT !.pc = "loop"]
    /\ UNCHANGED <<chatVars, apiVars, runVars, validation, interp>>

\* lines 35-39: config.get raises AttributeError on any other value, outside the
\* try of the loop; the exception leaves execute_action
ActivityRaise ==
    /\ activity.pc = "called"
    /\ ActionRaises(activity.config)
    /\ activity' = [activity EXCEPT !.pc = "raised"]
    /\ UNCHANGED <<chatVars, apiVars, runVars, validation, interp>>

\* lines 54-99: one attempt; a 2xx answer with a JSON body is returned as SUCCESS,
\* a failure is retried or ends the loop with the FAILED result
ActivityAttempt(outcome) ==
    /\ activity.pc = "loop"
    /\ activity.attempt < max_retries
    /\ activity' =
          [activity EXCEPT
              !.http_calls = Append(@, outcome),
              !.sent = @ + 1,
              !.last_error = IF outcome = "2xx" THEN @ ELSE outcome,
              !.attempt = IF outcome /= "2xx" /\ ShouldRetry(outcome, activity.attempt)
                          THEN @ + 1 ELSE @,
              !.pc = IF outcome /= "2xx" /\ ShouldRetry(outcome, activity.attempt)
                     THEN "loop" ELSE "returned",
              !.result =
                  IF outcome = "2xx"
                  THEN ActionResult("SUCCESS", ResponseJson(activity.action_name), "",
                                    activity.action_name)
                  ELSE IF ShouldRetry(outcome, activity.attempt) THEN @
                       ELSE ActionResult("FAILED", NoneValue, outcome, activity.action_name)]
    /\ UNCHANGED <<chatVars, apiVars, runVars, validation, interp>>

\* dynamic_workflow.py:85 and activities.py:53: the start-to-close timeout of
\* 5 minutes ends the invocation for the runtime. Each call is bounded by the
\* client's timeout of 120 seconds, so 5 minutes can have passed only once two
\* attempts have failed and the third call is in flight.
ActivityTimedOut ==
    /\ activity.pc = "loop"
    /\ activity.attempt = max_retries - 1
    /\ activity' = [activity EXCEPT !.http_calls = Append(@, "timeout"),
                                    !.sent = @ + 1,
                                    !.pc = "timed_out"]
    /\ UNCHANGED <<chatVars, apiVars, runVars, validation, interp>>

\* dynamic_workflow.py:82-93: an invocation that raised or timed out is started
\* again by the runtime, with the same arguments, while attempts remain
RuntimeRetry ==
    /\ activity.pc \in {"raised", "timed_out"}
    /\ activity.run_attempt < maximum_attempts
    /\ activity' = [activity EXCEPT !.pc = "called",
                                    !.attempt = 0,
                                    !.http_calls = <<>>,
                                    !.last_error = "",
                                    !.run_attempt = @ + 1]
    /\ UNCHANGED <<chatVars, apiVars, runVars, validation, interp>>

NextAction ==
    \/ ActivityBuildRequest
    \/ ActivityRaise
    \/ \E outcome \in HttpOutcomes : ActivityAttempt(outcome)
    \/ ActivityTimedOut
    \/ RuntimeRetry

SpecAction == InitAction /\ [][NextAction]_vars

----------------------------------------------------------------------------
(* Claims about execute_action, checked under SpecAction *)

HttpCalls == activity.http_calls

C19_NeverRaises ==
    /\ activity.pc /= "raised"
    /\ activity.pc = "returned" => activity.result.status \in {"SUCCESS", "FAILED"}

----------------------------------------------------------------------------
(* SpecInterp: _interpolate_config applied to strings built from segments *)

\* the pieces a config string is put together from: placeholders of paths that
\* hold a string, padded with spaces, of a missing key, of a path through a
\* string, of a path into a result, plain text and single braces
Segments ==
    {Placeholder(<<"inputs", ".", "x">>),
     Placeholder(<<"inputs", ".", "y">>),
     Placeholder(<<" ", "inputs", ".", "x", " ">>),
     Placeholder(<<"inputs", ".", "z">>),
     Placeholder(<<"inputs", ".", "x", ".", "value">>),
     Placeholder(<<"results", ".", "a", ".", "data", ".", "value">>),
     <<"hi">>, <<"{">>, <<"}">>}

RECURSIVE Concat(_)
Concat(ss) == IF ss = <<>> THEN <<>> ELSE Head(ss) \o Concat(Tail(ss))

InterpStrings == {Concat(ss) : ss \in UNION {[1..n -> Segments] : n \in 0..MaxSegments}}

\* the states the strings are resolved against: inputs x and y hold plain text or
\* text that is itself a placeholder; node a has a SUCCESS result or none
InterpStates ==
    {Dict(<<Item("inputs", Dict(<<Item("x", x), Item("y", y)>>)), Item("results", r)>>) :
        x \in {Str(<<"hi">>), Str(Placeholder(<<"inputs", ".", "y">>))},
        y \in {Str(<<"yo">>), Str(Placeholder(<<"inputs", ".", "x">>) \o <<"!">>)},
        r \in {Dict(<<>>),
               Dict(<<Item("a", ResultValue(ActionResult("SUCCESS", ResponseJson("act_a"),
                                                         "", "act_a")))>>)}}

\* the config values holding the string s: the string, a mapping of it, and a
\* sequence of a mapping and scalars
InterpConfigs(s) ==
    {Str(s), Dict(<<Item("msg", Str(s))>>),
     List(<<Dict(<<Item("msg", Str(s))>>), TrueValue, NoneValue>>)}

InitInterp ==
    /\ ApiIdle
    /\ RunIdle
    /\ validation = <<>>
    /\ ChatIdle
    /\ activity = <<>>
    /\ \E s \in InterpStrings, st \in InterpStates :
          \E c \in InterpConfigs(s) :
             interp = [config |-> c, state |-> st, out |-> NoneValue, pc |-> "input"]

InterpolateInPlace ==
    /\ interp.pc = "input"
    /\ interp' = [interp EXCEPT !.config = InterpolateConfig(interp.config, interp.state),
                                !.out = InterpolateConfig(interp.config, interp.state),
                                !.pc = "done"]
    /\ UNCHANGED <<chatVars, apiVars, runVars, validation, activity>>

\* the function assigns to its local name config and builds new containers; it
\* stores into none of its arguments
Interpolate ==
    /\ interp.pc = "input"
    /\ interp' = [interp EXCEPT !.out = InterpolateConfig(interp.config, interp.state),
                                !.pc = "done"]
    /\ UNCHANGED <<chatVars, apiVars, runVars, validation, activity>>

NextInterp == Interpolate

SpecInterp == InitInterp /\ [][NextInterp]_vars

----------------------------------------------------------------------------
(* Claims about interpolation, checked under SpecInterp *)

\* one simultaneous substitution: each placeholder of s, leftmost first, gives
\* way to the string form of the value at its path; what a value brings in is
\* not looked at again
RECURSIVE SubstituteOnce(_, _)
SubstituteOnce(s, state_) ==
    IF s = <<>> THEN <<>>
    ELSE IF GroupAt(s) > 0
         THEN StrOf(GetValueFromState(Strip(SubSeq(s, 3, 2 + GroupAt(s))), state_))
              \o SubstituteOnce(SubSeq(s, 5 + GroupAt(s), Len(s)), state_)
         ELSE <<Head(s)>> \o SubstituteOnce(Tail(s), state_)

\* C20: for every string and state the result is the string with each
\* placeholder of the original replaced, once, by the string form of the value at
\* its path: a single simultaneous substitution, in which text brought in by a
\* value is not substituted again.
C20_SingleSubstitution ==
    (interp.pc = "done" /\ interp.config.t = "str")
        => interp.out = Str(SubstituteOnce(interp.config.v, interp.state))

\* the key sequences that lead to a value inside value, the empty one included
RECURSIVE AllPaths(_)
AllPaths(value) ==
    {<<>>} \cup
        (IF value.t = "dict"
         THEN UNION {{<<value.v[i].key>> \o q : q \in AllPaths(value.v[i].value)} :
                        i \in DOMAIN value.v}
         ELSE {})

\* the path written in a placeholder leads nowhere in the state: a key is
\* missing, or the path goes on below a value that is no mapping
Missing(group, state_) ==
    LET parts == Split(Strip(group))
    IN ~(/\ \A i \in DOMAIN parts : Len(parts[i]) = 1
         /\ [i \in DOMAIN parts |-> parts[i][1]] \in AllPaths(state_))

\* s with each placeholder of a missing path replaced by the text None
RECURSIVE NoneForMissing(_, _)
NoneForMissing(s, state_) ==
    IF s = <<>> THEN <<>>
    ELSE IF GroupAt(s) > 0
         THEN (IF Missing(SubSeq(s, 3, 2 + GroupAt(s)), state_)
               THEN <<"None">> ELSE SubSeq(s, 1, 4 + GroupAt(s)))
              \o NoneForMissing(SubSeq(s, 5 + GroupAt(s), Len(s)), state_)
         ELSE <<Head(s)>> \o NoneForMissing(Tail(s), state_)

\* the placeholders of s are written with a path between the braces, no brace
PlainPlaceholders(s) ==
    \A i \in DOMAIN FindAll(s) : \A j \in DOMAIN FindAll(s)[i] : FindAll(s)[i][j] /= "{"

\* C21: a placeholder whose path does not exist in the state (a missing key, or
\* a path through a value that is no mapping) is replaced by the text None and
\* interpolation returns: a string whose placeholders are all of this kind comes
\* back with None in their places, and in any string it makes no difference
\* whether those placeholders are replaced by None beforehand.
C21_MissingPathGivesNone ==
    (interp.pc = "done" /\ interp.config.t = "str" /\ PlainPlaceholders(interp.config.v))
        => /\ interp.out = InterpolateConfig(
                               Str(NoneForMissing(interp.config.v, interp.state)),
                               interp.state)
           /\ (\A i \in DOMAIN FindAll(interp.config.v) :
                  Missing(FindAll(interp.config.v)[i], interp.state))
                 => interp.out = Str(NoneForMissing(interp.config.v, interp.state))

\* a missing key and a path below the string inputs.x both gave None
C21_Witness ==
    /\ interp.pc = "done"
    /\ interp.config = Str(Placeholder(<<"inputs", ".", "z">>)
                           \o Placeholder(<<"inputs", ".", "x", ".", "value">>))
    /\ interp.out = Str(<<"None", "None">>)

\* C22: interpolation is pure: it leaves the state and the config it was given
\* as they were, and hands back its result as a separate value.
C22_InterpolationPure ==
    [][(interp /= <<>> /\ interp' /= interp)
          => /\ interp'.state = interp.state
             /\ interp'.config = interp.config
             /\ interp'.out = InterpolateConfig(interp.config, interp.state)]_vars

\* a mapping with a placeholder was interpolated: the result differs from the
\* config, which is still the one given
C22_Witness ==
    /\ interp.pc = "done"
    /\ interp.config = Dict(<<Item("msg", Str(Placeholder(<<"inputs", ".", "x">>)))>>)
    /\ interp.out /= interp.config

\* a string holds a placeholder: {{, then one or more tokens other than }, then }}
StringHasPlaceholder(s) ==
    \E i, j \in DOMAIN s :
        /\ i + 2 < j /\ j < Len(s)
        /\ s[i] = "{" /\ s[i + 1] = "{" /\ s[j] = "}" /\ s[j + 1] = "}"
        /\ \A k \in (i + 2)..(j - 1) : s[k] /= "}"

RECURSIVE HasPlaceholder(_)
HasPlaceholder(value) ==
    CASE value.t = "str" -> StringHasPlaceholder(value.v)
      [] value.t = "dict" -> \E i \in DOMAIN value.v : HasPlaceholder(value.v[i].value)
      [] value.t = "list" -> \E i \in DOMAIN value.v : HasPlaceholder(value.v[i])
      [] OTHER -> FALSE

\* C23: for every config value (string, mapping, sequence or scalar, nested)
\* that holds no placeholder, and every state, the result equals the input, so
\* interpolating the result again gives it back.
C23_NoPlaceholderUnchanged ==
    (interp.pc = "done" /\ ~HasPlaceholder(interp.config))
        => /\ interp.out = interp.config
           /\ InterpolateConfig(interp.out, interp.state) = interp.out

\* a sequence of a mapping and scalars, its string holding braces but no
\* placeholder, came back as it was
C23_Witness ==
    /\ interp.pc = "done"
    /\ interp.config = List(<<Dict(<<Item("msg", Str(<<"{", "hi">>))>>), TrueValue, NoneValue>>)
    /\ interp.out = interp.config

----------------------------------------------------------------------------
(* Claims about what a dispatched node sees, checked under SpecRun *)

\* the ids among the first n of the order whose node type run() stores a result for
ResultsDue(n) ==
    SelectIn(SubSeq(execution_order, 1, n),
             {id \in Range(NodeIdsOf(config)) :
                 NodeById(config, id).type \in {"action", "condition", "loop"}})

\* what a config of the model is to be passed as: its placeholder stands for the
\* value node a returned, read from a's result, and for None when a has returned
\* no value by then
ExpectedConfig(node, results) ==
    IF node.config.t = "dict" /\ node.config.v /= <<>>
    THEN Dict(<<Item("msg",
                     IF "a" \in DictKeys(results) /\ DictGet(results, "a").status = "SUCCESS"
                     THEN DictGet(results, "a").data.v[1].value
                     ELSE Str(<<"None">>))>>)
    ELSE node.config

\* C12: when an action node is dispatched, state.results holds exactly the
\* results of the nodes before it in the execution order, under their node ids
\* and in that order, whether or not an edge joins them to it; a result once
\* written is not written again; and the config passed has its placeholders
\* resolved against that state.
C12_DispatchSeesEarlierResults ==
    [][/\ \A i \in DOMAIN state : i \in DOMAIN state' /\ state'[i] = state[i]
       /\ calls' /= calls =>
             /\ [i \in DOMAIN state |-> state[i].key] = ResultsDue(idx - 1)
             /\ \A i \in DOMAIN state :
                   LET n == NodeById(config, state[i].key)
                   IN CASE n.type = "action" ->
                              /\ state[i].value.status \in {"SUCCESS", "FAILED"}
                              /\ state[i].value.action_name = ActionNameOf(n)
                        [] n.type = "condition" -> state[i].value.status = "TRUE"
                        [] n.type = "loop" -> state[i].value.status = "LIST"
             /\ calls'[Len(calls')].node = execution_order[idx]
             /\ calls'[Len(calls')].config = ExpectedConfig(CurrentNode, state)]_vars

\* in the chain a -> b -> c, node c, which no edge joins to a, refers to a's
\* result and is invoked with the value a returned
C12_Witness ==
    /\ config.edges = <<Edge("a", "b"), Edge("b", "c")>>
    /\ execution_order = <<"a", "b", "c">>
    /\ \E i \in DOMAIN calls :
          /\ calls[i].node = "c"
          /\ calls[i].config = Dict(<<Item("msg", Str(<<"act_a">>))>>)
    /\ DictGet(state, "a").data = ResponseJson("act_a")

----------------------------------------------------------------------------
(* Claims about workflow versions, checked under SpecCrud *)

\* C25: a workflow is created with version 1; an update answered 200 raises the
\* version of the row it names by exactly 1, in place, leaving the other rows as
\* they were; no operation, soft delete included, removes a row or lowers its
\* version.
C25_VersionMonotone ==
    [][/\ \A id \in DOMAIN workflows' \ DOMAIN workflows : workflows'[id].version = 1
       /\ \A id \in DOMAIN workflows :
             /\ id \in DOMAIN workflows'
             /\ workflows'[id].version >= workflows[id].version
       /\ (resp' /= resp /\ resp'.op = "update" /\ resp'.code = 200)
             => /\ DOMAIN workflows' = DOMAIN workflows
                /\ workflows'[resp'.id].version = workflows[resp'.id].version + 1
                /\ \A id \in DOMAIN workflows \ {resp'.id} : workflows'[id] = workflows[id]
       /\ (resp' /= resp /\ resp'.op = "delete")
             => \A id \in DOMAIN workflows : workflows'[id].version = workflows[id].version]_vars

\* a workflow was updated: the same row is at version 2
C25_Witness ==
    /\ resp.op = "update" /\ resp.code = 200
    /\ resp.id \in DOMAIN workflows
    /\ workflows[resp.id].version = 2

\* C26: whatever creates, updates (renames included) and deletes were made, no
\* two stored workflows have the same name and version; a request answered with
\* an error leaves the stored workflows as they were.
C26_NameVersionUnique ==
    [][/\ \A v, w \in DOMAIN workflows' :
             (workflows'[v].name = workflows'[w].name
                 /\ workflows'[v].version = workflows'[w].version) => v = w
       /\ (resp' /= resp /\ resp'.code >= 400) => workflows' = workflows]_vars

\* a create of a name that a stored workflow holds at version 1 was refused
C26_Witness ==
    /\ resp.op = "create" /\ resp.code = 500
    /\ \E w \in DOMAIN workflows : workflows[w].version = 1
    /\ Cardinality(DOMAIN workflows) = 1

----------------------------------------------------------------------------
(* The conversation agent (app/services/workflow_agent.py) behind POST /chat
   (app/api/endpoints/chat.py). A chat request is served in steps, one per
   graph node the agent runs: each node that calls the LLM awaits its answer,
   which the step draws from the answers the LLM can give. One request is
   served at a time. *)

MaxMessages == 4

\* the texts the agent writes, each one token but for the number of steps
ConfirmationText == <<"Great! Your workflow is ready. Click 'Save Workflow' to finalize it.">>
NoNodesText ==
    <<"I couldn't generate any workflow nodes. Could you provide more details about what you want to accomplish?">>
IncompleteText == <<"The workflow seems incomplete. Would you like to add more steps?">>
SummaryText(num_steps) ==
    <<"I've created a workflow with ", ToString(num_steps),
      " steps. Review it on the canvas and let me know if you'd like any changes!">>
NeedInformationText == <<"I need more information to create your workflow. What would you like it to do?">>

\* what the user can send, and what the LLM can answer
UserTexts == {<<"m1">>, <<"m2">>}
ClarifyTexts == {<<"Which event starts the workflow?">>}
\* the router's answer after strip().lower(); "hello" is outside the four intents
IntentWords == {"create", "modify", "clarify", "complete", "hello"}

DraftNode(id) == Dict(<<Item("id", Str(<<id>>)), Item("type", Str(<<"action">>))>>)
DraftOf(ids) == Dict(<<Item("nodes", List([i \in DOMAIN ids |-> DraftNode(ids[i])])),
                       Item("edges", List(<<>>))>>)
\* chat_with_structured_output returns json.loads of the answer, whatever JSON
\* it is, or {"content": answer} when the answer is no JSON
StructuredOutputs ==
    {DraftOf(<<>>), DraftOf(<<"node_1">>), DraftOf(<<"node_1", "node_2">>),
     Dict(<<Item("content", Str(<<"sorry">>))>>), List(<<>>)}

Message(role, content) == [role |-> role, content |-> content]
ConversationSession(messages, workflow_draft, status) ==
    [messages |-> messages, workflow_draft |-> workflow_draft, status |-> status]

\* the ids uuid4 gives new sessions, and the ids a request can name
SessionIdPool == {"s1"}
SessionIds == SessionIdPool \cup {"s9"}

NoTurn ==
    [pc |-> "idle", sid |-> "", message |-> <<>>, shared |-> FALSE, messages |-> <<>>,
     workflow_draft |-> Dict(<<>>), intent |-> "", clarification_needed |-> FALSE,
     response |-> <<>>, visited |-> <<>>]
NoReply ==
    [op |-> "none", code |-> 0, session_id |-> "", response |-> <<>>, messages |-> <<>>]
ChatAnswer(op, code, sid, response, messages) ==
    [op |-> op, code |-> code, session_id |-> sid, response |-> response,
     messages |-> messages]

\* process_message lines 285-295: the user message is appended to the list
\* chat() passed, and the graph starts at the router. shared records that the
\* list is the session object's own list: `session.messages or []` (chat.py:77)
\* is that list unless it is empty, so the append of line 286 is made in place.
InitialState(sid, row, message) ==
    [pc |-> "router", sid |-> sid, message |-> message,
     shared |-> row.messages /= <<>>,
     messages |-> Append(row.messages, Message("user", message)),
     workflow_draft |-> row.workflow_draft,
     intent |-> "", clarification_needed |-> FALSE, response |-> <<>>,
     visited |-> <<>>]

TurnFree == turn.pc \in {"idle", "done"}

\* chat.py:40-47, the session id names no row
ChatNotFound(sid, message) ==
    /\ TurnFree
    /\ sid \notin DOMAIN sessions
    /\ turn' = NoTurn
    /\ reply' = ChatAnswer("chat", 404, sid, <<>>, <<>>)
    /\ UNCHANGED <<apiVars, runVars, fnVars, sessions>>

\* chat.py:48-57 and 59-86, a new session is stored and the agent is started
ChatNewSession(message) ==
    /\ TurnFree
    /\ \E sid \in SessionIdPool \ DOMAIN sessions :
          /\ sessions' = sessions @@ (sid :> ConversationSession(<<>>, Dict(<<>>), "active"))
          /\ turn' = InitialState(sid, sessions'[sid], message)
    /\ reply' = NoReply
    /\ UNCHANGED <<apiVars, runVars, fnVars>>

\* chat.py:40-44 and 59-86, the agent is started on a stored session
ChatContinue(sid, message) ==
    /\ TurnFree
    /\ sid \in DOMAIN sessions
    /\ Len(sessions[sid].messages) + 2 <= MaxMessages
    /\ turn' = InitialState(sid, sessions[sid], message)
    /\ reply' = NoReply
    /\ UNCHANGED <<apiVars, runVars, fnVars, sessions>>

RouteUnknownToClarify(intent) ==
    IF intent \in {"create", "modify", "clarify", "complete"} THEN intent ELSE "clarify"

\* _route_decision
RouteDecision(intent) ==
    IF intent \in {"create", "modify", "clarify", "complete"} THEN intent ELSE "create"

\* the mapping of add_conditional_edges("router", ...)
RouterTarget(decision) ==
    CASE decision = "create" -> "create_workflow"
      [] decision = "modify" -> "modify_workflow"
      [] decision = "clarify" -> "clarification"
      [] decision = "complete" -> "generate_response"

Visit(node) == Append(turn.visited, node)

\* _route_intent and the conditional edges out of the router
RouteIntent ==
    /\ turn.pc = "router"
    /\ \E intent \in IntentWords :
          turn' = [turn EXCEPT !.intent = intent,
                               !.pc = RouterTarget(RouteDecision(intent)),
                               !.visited = Visit("router")]
    /\ UNCHANGED <<apiVars, runVars, fnVars, sessions, reply>>

\* _create_workflow, then the edge to validation
CreateWorkflow ==
    /\ turn.pc = "create_workflow"
    /\ \E response \in StructuredOutputs :
          turn' = [turn EXCEPT !.workflow_draft = response,
                               !.clarification_needed = FALSE,
                               !.pc = "validation",
                               !.visited = Visit("create_workflow")]
    /\ UNCHANGED <<apiVars, runVars, fnVars, sessions, reply>>

\* _modify_workflow, then the edge to validation
ModifyWorkflow ==
    /\ turn.pc = "modify_workflow"
    /\ \E response \in StructuredOutputs :
          turn' = [turn EXCEPT !.workflow_draft = response,
                               !.clarification_needed = FALSE,
                               !.pc = "validation",
                               !.visited = Visit("modify_workflow")]
    /\ UNCHANGED <<apiVars, runVars, fnVars, sessions, reply>>

\* workflow_draft.get("nodes", [])
DraftNodes(workflow_draft) ==
    IF \E i \in DOMAIN workflow_draft.v : workflow_draft.v[i].key = "nodes"
    THEN DictGet(workflow_draft.v, "nodes").v
    ELSE <<>>

\* _validation_decision and the mapping of its conditional edges
ValidationTarget(clarification_needed) ==
    IF clarification_needed THEN "clarification" ELSE "generate_response"

\* _validate_workflow on a draft that is a dict
ValidateWorkflow ==
    /\ turn.pc = "validation"
    /\ turn.workflow_draft.t = "dict"
    /\ LET nodes == DraftNodes(turn.workflow_draft)
           needed == Len(nodes) < 2
       IN turn' = [turn EXCEPT
                      !.clarification_needed = needed,
                      !.response = IF Len(nodes) = 0 THEN NoNodesText
                                   ELSE IF Len(nodes) < 2 THEN IncompleteText
                                   ELSE @,
                      !.pc = ValidationTarget(needed),
                      !.visited = Visit("validation")]
    /\ UNCHANGED <<apiVars, runVars, fnVars, sessions, reply>>

\* the request fails: chat.py:132-133 answers 500; nothing was assigned to the
\* session and nothing is committed
TurnFails ==
    /\ turn' = NoTurn
    /\ reply' = ChatAnswer("chat", 500, turn.sid, <<>>, <<>>)
    /\ UNCHANGED <<apiVars, runVars, fnVars, sessions>>

\* _validate_workflow on a draft that is no dict: workflow_draft.get raises
ValidateRaises ==
    /\ turn.pc = "validation"
    /\ turn.workflow_draft.t /= "dict"
    /\ TurnFails

\* an LLM call raises (azure_llm_service.chat has no handler); the four nodes
\* that call the LLM have none either
LlmRaises ==
    /\ turn.pc \in {"router", "create_workflow", "modify_workflow", "clarification"}
    /\ TurnFails

\* _ask_clarification, then the edge to generate_response
AskClarification ==
    /\ turn.pc = "clarification"
    /\ \E response \in ClarifyTexts :
          turn' = [turn EXCEPT !.response = response,
                               !.clarification_needed = FALSE,
                               !.pc = "generate_response",
                               !.visited = Visit("clarification")]
    /\ UNCHANGED <<apiVars, runVars, fnVars, sessions, reply>>

\* _generate_response, then the edge to END
GenerateResponse ==
    /\ turn.pc = "generate_response"
    /\ LET num_steps == Len(DraftNodes(turn.workflow_draft))
       IN turn' = [turn EXCEPT
                      !.response = IF turn.intent = "complete" THEN ConfirmationText
                                   ELSE IF turn.intent = "clarify" THEN @
                                   ELSE IF num_steps > 0 THEN SummaryText(num_steps)
                                   ELSE NeedInformationText,
                      !.pc = "END",
                      !.visited = Visit("generate_response")]
    /\ UNCHANGED <<apiVars, runVars, fnVars, sessions, reply>>

\* process_message lines 300-308: the assistant message is appended and the
\* messages, the draft and the response are returned
ProcessMessageReturn ==
    /\ turn.pc = "END"
    /\ turn' = [turn EXCEPT !.messages = Append(@, Message("assistant", turn.response)),
                            !.pc = "returned"]
    /\ UNCHANGED <<apiVars, runVars, fnVars, sessions, reply>>

\* What db.commit() writes of the messages column (chat.py:89, 112). The column
\* is a plain JSONB, so the unit of work writes it when the value assigned
\* differs from the value it holds as loaded. When the returned list is the
\* session's own list (shared), the loaded value is that same list, appended
\* to in place: the two compare equal and the column is left out of the
\* UPDATE. Otherwise the returned list is written.
CommittedMessages(row, state_) ==
    IF state_.shared THEN row.messages ELSE state_.messages

\* chat.py:88-130: the session is updated, committed and refreshed, and the
\* answer is built from the refreshed session
ChatCommit ==
    /\ turn.pc = "returned"
    /\ sessions' = [sessions EXCEPT
                      ![turn.sid].messages = CommittedMessages(sessions[turn.sid], turn),
                      ![turn.sid].workflow_draft = turn.workflow_draft]
    /\ reply' = ChatAnswer("chat", 200, turn.sid, turn.response,
                           sessions'[turn.sid].messages)
    /\ turn' = [turn EXCEPT !.pc = "done"]
    /\ UNCHANGED <<apiVars, runVars, fnVars>>

\* get_conversation
GetConversation(sid) ==
    /\ TurnFree
    /\ IF sid \in DOMAIN sessions
       THEN reply' = ChatAnswer("get", 200, sid, <<>>, sessions[sid].messages)
       ELSE reply' = ChatAnswer("get", 404, sid, <<>>, <<>>)
    /\ UNCHANGED <<apiVars, runVars, fnVars, sessions, turn>>

InitChat ==
    /\ ApiIdle
    /\ RunIdle
    /\ FnIdle
    /\ sessions = <<>>
    /\ turn = NoTurn
    /\ reply = NoReply

chat ==
    \E message \in UserTexts :
       \/ ChatNewSession(message)
       \/ \E sid \in SessionIds : ChatContinue(sid, message) \/ ChatNotFound(sid, message)

NextChat ==
    \/ chat
    \/ RouteIntent
    \/ CreateWorkflow
    \/ ModifyWorkflow
    \/ ValidateWorkflow
    \/ ValidateRaises
    \/ LlmRaises
    \/ AskClarification
    \/ GenerateResponse
    \/ ProcessMessageReturn
    \/ ChatCommit
    \/ \E sid \in SessionIds : GetConversation(sid)

SpecChat == InitChat /\ [][NextChat]_vars

----------------------------------------------------------------------------
(* Claims about the conversation agent, checked under SpecChat *)

\* the ways through the graph of a turn that reaches its exit
AgentPaths ==
    {<<"router", "create_workflow", "validation", "generate_response">>,
     <<"router", "create_workflow", "validation", "clarification", "generate_response">>,
     <<"router", "modify_workflow", "validation", "generate_response">>,
     <<"router", "modify_workflow", "validation", "clarification", "generate_response">>,
     <<"router", "clarification", "generate_response">>,
     <<"router", "generate_response">>}

IsPrefix(s, p) == Len(s) <= Len(p) /\ SubSeq(p, 1, Len(s)) = s

\* the node the router's answer leads to
AfterRouter(intent) ==
    CASE intent = "modify" -> "modify_workflow"
      [] intent = "clarify" -> "clarification"
      [] intent = "complete" -> "generate_response"
      [] OTHER -> "create_workflow"

AtExit == turn.pc \in {"END", "returned", "done"}

C28_ValidateMessageIsResponse ==
    (turn.pc = "done" /\ reply.op = "chat" /\ reply.code = 200
        /\ turn.visited[2] \in {"create_workflow", "modify_workflow"})
       => LET n == Len(DraftNodes(turn.workflow_draft))
              clarified == \E i \in DOMAIN turn.visited : turn.visited[i] = "clarification"
          IN /\ n = 0 => clarified /\ reply.response = NoNodesText
             /\ n = 1 => clarified /\ reply.response = IncompleteText
             /\ n >= 2 => ~clarified

\* C29: Respond leaves the fixed confirmation when the intent is complete, leaves
\* the response as Clarify wrote it when the intent is clarify, and otherwise
\* leaves a text that holds the number of nodes of the draft.
C29_ResponseByIntent ==
    [][(turn.pc = "generate_response" /\ turn'.pc = "END")
          => /\ turn.intent = "complete" => turn'.response = ConfirmationText
             /\ turn.intent = "clarify"
                   => turn'.response = turn.response /\ turn.response \in ClarifyTexts
             /\ turn.intent \notin {"complete", "clarify"}
                   => \E i \in DOMAIN turn'.response :
                         turn'.response[i] = ToString(Len(DraftNodes(turn.workflow_draft)))]_vars

\* C30: process_message returns the stored messages, then the user message, then
\* the assistant message holding the response; and a get of the session, made
\* after the turn was answered, returns the sequence the turn returned.
C30_TurnAppendsTwo ==
    [][/\ (turn.pc = "END" /\ turn'.pc = "returned")
             => turn'.messages = sessions[turn.sid].messages
                                   \o <<Message("user", turn.message),
                                        Message("assistant", turn'.response)>>
       /\ (turn.pc = "done" /\ reply'.op = "get" /\ reply'.code = 200
              /\ reply'.session_id = turn.sid)
             => reply'.messages = turn.messages]_vars

\* the keys of a JSON object, none for any other value
KeysOf(value) == IF value.t = "dict" THEN DictKeys(value.v) ELSE {}

\* C31: the workflow_draft of every stored session is empty or is an object
\* that has nodes and edges, whatever the LLM answered in Create or Modify.
C31_DraftShape ==
    \A sid \in DOMAIN sessions :
        \/ sessions[sid].workflow_draft = Dict(<<>>)
        \/ /\ sessions[sid].workflow_draft.t = "dict"
           /\ {"nodes", "edges"} \subseteq KeysOf(sessions[sid].workflow_draft)

\* C32: a turn in which an LLM call fails is still answered 200, with a
\* clarification as its response, and not with an error.
C32_LlmFailureAnswered ==
    [][(turn.pc \in {"router", "create_workflow", "modify_workflow", "clarification"}
           /\ turn'.pc = "idle")
          => reply'.code = 200 /\ reply'.response /= <<>>]_vars

----------------------------------------------------------------------------
(* Claims about ties in the execution order, checked under SpecOrder *)

\* the nodes with an edge into n, counting the edges whose two ends are nodes
PredecessorsOf(cfg, n) ==
    {e.source : e \in {f \in Range(cfg.edges) :
                          f.target = n /\ f.source \in Range(NodeIdsOf(cfg))}}

\* the nodes not among the first k of the order whose predecessors all are
ReadyAfter(cfg, order, k) ==
    LET emitted == {order[j] : j \in 1..k}
    IN {n \in Range(NodeIdsOf(cfg)) \ emitted : PredecessorsOf(cfg, n) \subseteq emitted}

\* C33: at every position of the order, when some nodes are ready (not yet
\* emitted, all predecessors emitted), the node at that position is the ready
\* node that comes first in the insertion order of nodes.
C33_TieBreakInsertionOrder ==
    runPc = "ordered" =>
        \A i \in DOMAIN execution_order :
            \A n \in ReadyAfter(config, execution_order, i - 1) :
                IndexOf(NodeIdsOf(config), execution_order[i])
                    <= IndexOf(NodeIdsOf(config), n)

----------------------------------------------------------------------------
(* Claims about the results of a run, checked under SpecRun *)

\* C34: when run() has returned, the keys of the data it returns are exactly
\* the ids of the nodes of the config, whatever the type of each node.
C34_ResultKeysAreNodeIds ==
    runPc = "done" => DictKeys(runReturn.data) = Range(NodeIdsOf(config))

----------------------------------------------------------------------------
(* Claims about runs and their records, checked under Spec *)

\* C35: every run that is running in the durable runtime has an Execution
\* record that refers to it, also when the write of the record failed after the
\* runtime accepted the start.
C35_RunningRunHasRecord ==
    \A k \in DOMAIN runtime :
        runtime[k].status = "RUNNING"
            => \E e \in ExecSet : executions[e].temporal_workflow_id = k

\* the outcome a local terminal status and a closed runtime status denote
OutcomeOf(status) ==
    CASE status \in {"CANCELLED", "CANCELED"} -> "cancelled"
      [] status = "COMPLETED" -> "completed"
      [] status = "FAILED" -> "failed"
      [] OTHER -> status

\* C37: whenever the status of an Execution is COMPLETED, FAILED or CANCELLED
\* and its run is closed in the runtime, the two name the same outcome; no
\* record is CANCELLED for a run the runtime closed as COMPLETED.
C37_TerminalStatusesAgree ==
    \A e \in ExecSet :
        LET rt == runtime[executions[e].temporal_workflow_id]
        IN (executions[e].status \in TerminalStatuses /\ rt.status \in RuntimeClosed)
              => OutcomeOf(executions[e].status) = OutcomeOf(rt.status)

----------------------------------------------------------------------------
(* SpecCancelRace: concurrent cancel_execution requests on one RUNNING
   execution. Each handler is its own coroutine with its own database session;
   req and resp hold one entry per handler. A handler suspends at its awaits:
   after the row is loaded and checked (executions.py:143-155) it awaits
   handle.cancel() (temporal_service.py:109), then the commit (line 115). *)

Handlers == {"h1", "h2"}

\* a cancel request of a handler: where it is, and whether its handle.cancel()
\* reached the runtime
CancelRequest(pc, signalled) == [op |-> "cancel", id |-> 1, pc |-> pc, signalled |-> signalled]

CancelResponse(code, detail) == [op |-> "cancel", id |-> 1, code |-> code, detail |-> detail]

InitCancelRace ==
    /\ pyEnumStr = "value"
    /\ workflows = ("w1" :> SeedWorkflow)
    /\ runtime = <<NewRuntimeWorkflow>>
    /\ executions = <<NewExecution("w1", 1)>>
    /\ now = 1
    /\ req = [h \in Handlers |-> CancelRequest("start", FALSE)]
    /\ resp = [h \in Handlers |-> NoResp]
    /\ RunIdle
    /\ FnIdle
    /\ ChatIdle

\* executions.py:143-155: the row is loaded and its status checked
RaceCancelCheck(h) ==
    /\ req[h].pc = "start"
    /\ IF CancelAllowed(req[h].id)
       THEN /\ req' = [req EXCEPT ![h].pc = "signal"]
            /\ resp' = resp
       ELSE /\ req' = [req EXCEPT ![h].pc = "done"]
            /\ resp' = [resp EXCEPT ![h] = CancelResponse(400, executions[req[h].id].status)]
    /\ UNCHANGED <<chatVars, pyEnumStr, workflows, executions, runtime, now, runVars, fnVars>>

\* temporal_service.py:104-109: await handle.cancel() returns
RaceCancelSignal(h) ==
    /\ req[h].pc = "signal"
    /\ runtime' = [runtime EXCEPT
                     ![executions[req[h].id].temporal_workflow_id].cancel_requested = TRUE]
    /\ req' = [req EXCEPT ![h].pc = "mark", ![h].signalled = TRUE]
    /\ UNCHANGED <<chatVars, pyEnumStr, workflows, executions, now, resp, runVars, fnVars>>

\* get_client() or handle.cancel() raises; executions.py:166-167 answers 500
RaceCancelRaised(h) ==
    /\ req[h].pc = "signal"
    /\ req' = [req EXCEPT ![h].pc = "done"]
    /\ resp' = [resp EXCEPT ![h] = CancelResponse(500, "")]
    /\ UNCHANGED <<chatVars, pyEnumStr, workflows, executions, runtime, now, runVars, fnVars>>

\* temporal_service.py:112-115 and executions.py:161-164: the record is marked,
\* committed, and the endpoint answers 200
RaceCancelMark(h) ==
    /\ req[h].pc = "mark"
    /\ executions' = [executions EXCEPT ![req[h].id] = MarkCancelled(@)]
    /\ req' = [req EXCEPT ![h].pc = "done"]
    /\ resp' = [resp EXCEPT ![h] = CancelResponse(200, "CANCELLED")]
    /\ UNCHANGED <<chatVars, pyEnumStr, workflows, runtime, now, runVars, fnVars>>

NextCancelRace ==
    \/ \E h \in Handlers : RaceCancelCheck(h)
    \/ \E h \in Handlers : RaceCancelSignal(h)
    \/ \E h \in Handlers : RaceCancelRaised(h)
    \/ \E h \in Handlers : RaceCancelMark(h)
    \/ RuntimeClose(1)
    \/ Tick

SpecCancelRace == InitCancelRace /\ [][NextCancelRace]_vars

\* C36: of two cancel requests for the same RUNNING execution, however they
\* interleave, at most one is answered 200, at most one cancel signal reaches
\* the runtime, and when one was answered 200 the other, once answered, was
\* rejected with 400.
C36_OneCancelWins ==
    /\ Cardinality({h \in Handlers : resp[h].code = 200}) <= 1
    /\ Cardinality({h \in Handlers : req[h].signalled}) <= 1
    /\ \A g, h \in Handlers :
          (g /= h /\ resp[g].code = 200 /\ req[h].pc = "done") => resp[h].code = 400

----------------------------------------------------------------------------
(* SpecUpdateRace: concurrent update_workflow requests on one workflow. Each
   handler loads the row into its own session (workflows.py:113-115), changes
   the loaded object in memory (lines 121-129) and suspends at the commit
   (line 131), which writes the changed columns of that object. *)

Updaters == {"u1", "u2", "u3"}

UpdateNames == {None, <<"renamed">>}

UpdateRequest(pc, name, row) == [op |-> "update", id |-> "w1", pc |-> pc, name |-> name, row |-> row]

UpdateResponse(code, version) == [op |-> "update", id |-> "w1", code |-> code, version |-> version]

InitUpdateRace ==
    /\ pyEnumStr = "value"
    /\ workflows = ("w1" :> SeedWorkflow)
    /\ executions = <<>>
    /\ runtime = <<>>
    /\ now = 1
    /\ req = [h \in Updaters |-> UpdateRequest("start", None, SeedWorkflow)]
    /\ resp = [h \in Updaters |-> NoResp]
    /\ RunIdle
    /\ FnIdle
    /\ ChatIdle

\* workflows.py:113-129: the row is loaded and the loaded object is changed;
\* existing_workflow.version += 1 reads the loaded version
RaceUpdateLoad(h, name) ==
    /\ req[h].pc = "start"
    /\ req' = [req EXCEPT ![h] = UpdateRequest("commit", name,
                                       UpdatedWorkflow(workflows[req[h].id], name, None))]
    /\ UNCHANGED <<chatVars, pyEnumStr, workflows, executions, runtime, now, resp, runVars, fnVars>>

\* workflows.py:131-134: the commit writes the columns the handler changed, the
\* refresh reloads the row and the endpoint answers with it
RaceUpdateCommit(h) ==
    /\ req[h].pc = "commit"
    /\ workflows' = [workflows EXCEPT
                       ![req[h].id].version = req[h].row.version,
                       ![req[h].id].name = IF IsSet(req[h].name) THEN req[h].row.name ELSE @]
    /\ req' = [req EXCEPT ![h].pc = "done"]
    /\ resp' = [resp EXCEPT ![h] = UpdateResponse(200, workflows'[req[h].id].version)]
    /\ UNCHANGED <<chatVars, pyEnumStr, executions, runtime, now, runVars, fnVars>>

NextUpdateRace ==
    \/ \E h \in Updaters, name \in UpdateNames : RaceUpdateLoad(h, name)
    \/ \E h \in Updaters : RaceUpdateCommit(h)

SpecUpdateRace == InitUpdateRace /\ [][NextUpdateRace]_vars

\* C38: after n update_workflow requests on one workflow have succeeded, in any
\* interleaving, the version of the workflow is its earlier version plus n.
C38_NoLostIncrement ==
    workflows["w1"].version =
        SeedWorkflow.version + Cardinality({h \in Updaters : resp[h].code = 200})

----------------------------------------------------------------------------
(* SpecChatRace: two chat requests on one conversation session. Each handler
   loads the session into its own database session (chat.py:40-47), runs the
   agent on what it loaded (lines 59-86) and commits (lines 88-113). The agent
   touches nothing shared, so its run is one step here: AgentReturn is what
   process_message returns for the answers the LLM gave. *)

Talkers == {"h1", "h2"}

\* the message each request carries
TalkerMessage(h) == IF h = "h1" THEN <<"m1">> ELSE <<"m2">>

\* the session as the requests find it: without messages, or with one earlier turn
EarlierSessions ==
    {ConversationSession(<<>>, Dict(<<>>), "active"),
     ConversationSession(<<Message("user", <<"m0">>), Message("assistant", NeedInformationText)>>,
                         Dict(<<>>), "active")}

\* WorkflowAgent.process_message from the initial state t to its return, for
\* the router's answer intent, the structured output draft of Create or Modify,
\* and the question text Clarify obtains
AgentReturn(t, intent, draft, text) ==
    LET decision == RouteDecision(intent)
        workflow_draft == IF decision \in {"create", "modify"} THEN draft ELSE t.workflow_draft
        num_steps == Len(DraftNodes(workflow_draft))
        response == IF intent = "complete" THEN ConfirmationText
                    ELSE IF intent = "clarify" THEN text
                    ELSE IF num_steps > 0 THEN SummaryText(num_steps)
                    ELSE NeedInformationText
    IN [t EXCEPT !.pc = "returned",
                 !.intent = intent,
                 !.workflow_draft = workflow_draft,
                 !.response = response,
                 !.messages = Append(@, Message("assistant", response))]

InitChatRace ==
    /\ ApiIdle
    /\ RunIdle
    /\ FnIdle
    /\ \E row \in EarlierSessions : sessions = ("s1" :> row)
    /\ turn = [h \in Talkers |-> [state |-> NoTurn, loaded |-> sessions["s1"]]]
    /\ reply = [h \in Talkers |-> NoReply]

\* chat.py:40-47 and 59-86: the session is loaded and the agent is started
RaceChatLoad(h) ==
    /\ turn[h].state.pc = "idle"
    /\ turn' = [turn EXCEPT ![h] = [state |-> InitialState("s1", sessions["s1"], TalkerMessage(h)),
                                    loaded |-> sessions["s1"]]]
    /\ UNCHANGED <<apiVars, runVars, fnVars, sessions, reply>>

\* chat.py:86: process_message returns
RaceAgentReturns(h, intent, draft, text) ==
    /\ turn[h].state.pc = "router"
    /\ turn' = [turn EXCEPT ![h].state = AgentReturn(@, intent, draft, text)]
    /\ UNCHANGED <<apiVars, runVars, fnVars, sessions, reply>>

\* chat.py:88-130: the commit writes the columns whose assigned value differs
\* from the loaded one, the refresh reloads the row, the answer is built
RaceChatCommit(h) ==
    /\ turn[h].state.pc = "returned"
    /\ sessions' = [sessions EXCEPT
                      !["s1"].messages = CommittedMessages(sessions["s1"], turn[h].state),
                      !["s1"].workflow_draft =
                          IF turn[h].state.workflow_draft = turn[h].loaded.workflow_draft
                          THEN @ ELSE turn[h].state.workflow_draft]
    /\ reply' = [reply EXCEPT ![h] = ChatAnswer("chat", 200, "s1", turn[h].state.response,
                                                sessions'["s1"].messages)]
    /\ turn' = [turn EXCEPT ![h].state.pc = "done"]
    /\ UNCHANGED <<apiVars, runVars, fnVars>>

NextChatRace ==
    \/ \E h \in Talkers : RaceChatLoad(h)
    \/ \E h \in Talkers, intent \in IntentWords, text \in ClarifyTexts :
          \E draft \in {d \in StructuredOutputs : d.t = "dict"} :
             RaceAgentReturns(h, intent, draft, text)
    \/ \E h \in Talkers : RaceChatCommit(h)

SpecChatRace == InitChatRace /\ [][NextChatRace]_vars

\* C39: when two chat turns on one session have both been answered 200, however
\* they interleaved, the stored messages of the session contain the user
\* message and the assistant message of both turns.
C39_BothTurnsStored ==
    (\A h \in Talkers : reply[h].code = 200) =>
        \A h \in Talkers :
            LET stored == sessions["s1"].messages
            IN \E i \in DOMAIN stored :
                  /\ stored[i] = Message("user", TalkerMessage(h))
                  /\ i + 1 \in DOMAIN stored
                  /\ stored[i + 1] = Message("assistant", turn[h].state.response)

----------------------------------------------------------------------------
(* Claims about the calls of one action node, checked under SpecAction *)

\* C40: for one action node of one execution the action service receives at
\* most 3 HTTP calls in total, over the retry loop of execute_action and the
\* runtime's re-executions of the activity together.
C40_AtMostThreeCallsInTotal == activity.sent <= max_retries

====
